---- MODULE Spec2Model ----
(***************************************************************************)
(* Model of the RSS (refresh secret sharing) client of                     *)
(* torusresearch/rss-client: RSSClient.refresh, RSSClient.import and       *)
(* recover (src/src/rss.ts), the polynomial kit (utils.ts / helpers.ts)    *)
(* and the mock server's Round 1 / Round 2 handlers.                       *)
(*                                                                         *)
(* Scalars are integers reduced mod ecCurve_n, a small prime standing for  *)
(* the order of the curve selected by keyType.  A curve point is           *)
(* represented by its curve and its discrete logarithm to the base point   *)
(* of that curve (the group has prime order, so it is cyclic): point       *)
(* addition is addition mod n, scalar multiplication is multiplication     *)
(* mod n, the identity has logarithm 0.  An ECIES ciphertext is a record   *)
(* of the public key it was made for, the plaintext and whether its MAC    *)
(* is intact; it opens only under the matching private key.                *)
(***************************************************************************)
EXTENDS Integers, Sequences, FiniteSets, TLC

\* ------------------------------------------------------------------------
\* Bounds of the model and program constants
\* ------------------------------------------------------------------------
NumServers == 3          \* N, the length of serverEndpoints / serverPubKeys
serverThreshold == 2     \* T, RSSClientOptions.serverThreshold
Secp256k1_n == 13        \* the order of the group of secp256k1, new EC("secp256k1").n
Ed25519_n == 17          \* the order of the group of ed25519, new EC("ed25519").n
UserShareIndex == 99     \* the fixed index of the user's share on the master polynomial

\* Values that stand for JavaScript's null / undefined and for thrown errors where
\* a scalar is expected (every scalar of the program is >= 0)
NULL == -1               \* null, undefined
DecryptError == -2       \* the rejection of eccrypto's decrypt (bad MAC)
TypeError == -3          \* a method called on null / undefined
LengthMismatch == -4     \* "arrays of different lengths"
InverseError == -5       \* "Modular inverse does not exist"
InvalidKeyType == -6     \* "Invalid keyType, only secp256k1 or ed25519 is supported"

Servers == 1..NumServers

\* ------------------------------------------------------------------------
\* State
\* ------------------------------------------------------------------------
VARIABLES
  env,           \* the harness: keyType, tssPrivKey, dkg2Priv, the random tape
  client,        \* the fields of the RSSClient
  shareDB,       \* shareDB[j][label] of mock server j
  store,         \* store[j] of mock server j: its private key
  tssNonce,      \* tssNonce[j] of mock server j: its nonce table
  pc,            \* the call: "idle", "round1", "round2", "done"
  opts,          \* the options of the call
  round1Reqs,    \* the /rss_round_1 requests issued, in promise order
  round1Resps,   \* rssRound1Proms: one slot per request, then the client's own
  sums,          \* sums[i] = [mc, sc] once the client has aggregated
  userShares,    \* userShares[i]
  userFactorEncs,\* userFactorEncs[i]
  round2Reqs,    \* the /rss_round_2 requests issued, by server index
  round2Resps,   \* serverFactorEncs: one slot per server
  result,        \* what the call returned or threw
  recovered,     \* what recover returned or threw
  tampered,      \* the alteration of a received value that took place, if any
  suspended,     \* the local variables of a second call of the same client that waits at an await
  call,          \* a direct call of an exported function: its name and arguments
  ret            \* what that call returned or threw

vars == <<env, client, shareDB, store, tssNonce, pc, opts, round1Reqs, round1Resps, sums, userShares, userFactorEncs,
          round2Reqs, round2Resps, result, recovered, tampered, suspended, call, ret>>

\* the variables of a refresh or import call and of its recover
protocol == <<env, client, shareDB, store, tssNonce, pc, opts, round1Reqs, round1Resps, sums, userShares, userFactorEncs,
              round2Reqs, round2Resps, result, recovered, tampered, suspended>>

\* ------------------------------------------------------------------------
\* The curves
\* ------------------------------------------------------------------------
KeyTypes == {"secp256k1", "ed25519"}

\* new EC(keyType).n
CurveOrder(curve) == IF curve = "secp256k1" THEN Secp256k1_n ELSE Ed25519_n

\* the curve of the TSS key: the harness passes the same key type to the client
\* (opts.keyType), to the servers (CURVE) and to recover
ecCurve == env.keyType
ecCurve_n == CurveOrder(ecCurve)

\* ------------------------------------------------------------------------
\* Polynomial kit (utils.ts, helpers.ts)
\* ------------------------------------------------------------------------
\* BN.umod / bigIntUmod: the non-negative remainder
bigIntUmod(a, m) == ((a % m) + m) % m

RECURSIVE Pow(_, _)
Pow(b, e) == IF e = 0 THEN 1 ELSE b * Pow(b, e - 1)

\* the loop of modularInverse: the extended Euclidean algorithm on (old_r, r), (old_s, s)
RECURSIVE InverseLoop(_, _, _, _)
InverseLoop(old_r, r, old_s, s) ==
  IF r = 0 THEN <<old_r, old_s>>
  ELSE LET quotient == old_r \div r
       IN  InverseLoop(r, old_r - quotient * r, s, old_s - quotient * s)

\* the number of passes of the while loop of modularInverse
RECURSIVE InverseStepLoop(_, _, _)
InverseStepLoop(old_r, r, passes) ==
  IF r = 0 THEN passes
  ELSE InverseStepLoop(r, old_r - (old_r \div r) * r, passes + 1)

InverseSteps(a, m) == InverseStepLoop(a, m, 0)

\* modularInverse without the test of the greatest common divisor
modularInverseUnchecked(a, m) ==
  LET res == InverseLoop(a, m, 1, 0)
  IN  IF res[2] < 0 THEN res[2] + m ELSE res[2]

\* modularInverse(a, m)
modularInverse(a, m) ==
  LET res == InverseLoop(a, m, 1, 0)
  IN  IF res[1] > 1 THEN InverseError
      ELSE IF res[2] < 0 THEN res[2] + m ELSE res[2]

\* generatePolynomial(degree, yIntercept, randomElement): rnd lists the values the
\* successive calls of randomElement return
generatePolynomial(degree, yIntercept, rnd) ==
  <<yIntercept>> \o [k \in 1..degree |-> rnd[k]]

\* getShare(polynomial, index, modulus)
RECURSIVE ShareLoop(_, _, _, _, _)
ShareLoop(polynomial, index, modulus, i, res) ==
  IF i > Len(polynomial) THEN res
  ELSE ShareLoop(polynomial, index, modulus, i + 1,
                 res + bigIntUmod(polynomial[i] * Pow(index, i - 1), modulus))

\* the sum of the reduced terms returned as it is
getShareUnreduced(polynomial, index, modulus) ==
  ShareLoop(polynomial, index, modulus, 1, 0)

getShare(polynomial, index, modulus) ==
  bigIntUmod(ShareLoop(polynomial, index, modulus, 1, 0), modulus)

\* getShare of helpers.ts, on bigint: res = bigIntUmod(term, modulus) + res
RECURSIVE BigIntShareLoop(_, _, _, _, _)
BigIntShareLoop(polynomial, index, modulus, i, res) ==
  IF i > Len(polynomial) THEN res
  ELSE LET term == polynomial[i] * Pow(index, i - 1)
       IN  BigIntShareLoop(polynomial, index, modulus, i + 1, bigIntUmod(term, modulus) + res)

getShareBigInt(polynomial, index, modulus) ==
  bigIntUmod(BigIntShareLoop(polynomial, index, modulus, 1, 0), modulus)

\* dotProduct(arr1, arr2) without a modulus; an entry that is null (an absent
\* ciphertext) makes arr1[i].mul throw a TypeError
RECURSIVE DotLoop(_, _, _, _)
DotLoop(arr1, arr2, i, sum) ==
  IF i > Len(arr1) THEN sum
  ELSE IF arr1[i] = NULL \/ arr2[i] = NULL THEN TypeError
  ELSE DotLoop(arr1, arr2, i + 1, sum + arr1[i] * arr2[i])

dotProduct(arr1, arr2) ==
  IF Len(arr1) # Len(arr2) THEN LengthMismatch
  ELSE DotLoop(arr1, arr2, 1, 0)

\* dotProduct(arr1, arr2, modulus) of BN values; modulus is NULL when the optional
\* argument is omitted, and the sum is reduced after every addition when it is given
RECURSIVE DotModLoop(_, _, _, _, _)
DotModLoop(arr1, arr2, modulus, i, sum) ==
  IF i > Len(arr1) THEN sum
  ELSE LET added == sum + arr1[i] * arr2[i]
       IN  DotModLoop(arr1, arr2, modulus, i + 1,
                      IF modulus # NULL THEN added % modulus ELSE added)

\* dotProduct over the common prefix of the two arrays, without the length check
dotProductOverPrefix(arr1, arr2, modulus) ==
  LET len == IF Len(arr1) < Len(arr2) THEN Len(arr1) ELSE Len(arr2)
  IN  DotModLoop(SubSeq(arr1, 1, len), SubSeq(arr2, 1, len), modulus, 1, 0)

dotProductMod(arr1, arr2, modulus) ==
  IF Len(arr1) # Len(arr2) THEN LengthMismatch
  ELSE DotModLoop(arr1, arr2, modulus, 1, 0)

\* dotProduct(arr1, arr2, modulus) of bigint values: "if (modulus)" is false for an
\* omitted modulus and for 0n
RECURSIVE BigIntDotLoop(_, _, _, _, _)
BigIntDotLoop(arr1, arr2, modulus, i, sum) ==
  IF i > Len(arr1) THEN sum
  ELSE LET added == sum + (arr1[i] * arr2[i])
       IN  BigIntDotLoop(arr1, arr2, modulus, i + 1,
                         IF modulus # NULL /\ modulus # 0 THEN bigIntUmod(added, modulus)
                         ELSE added)

dotProductBigInt(arr1, arr2, modulus) ==
  IF Len(arr1) # Len(arr2) THEN LengthMismatch
  ELSE BigIntDotLoop(arr1, arr2, modulus, 1, 0)

\* getLagrangeCoeff(allIndexes, myIndex, target, modulus)
RECURSIVE LagrangeLoop(_, _, _, _, _, _, _)
LagrangeLoop(allIndexes, myIndex, target, modulus, j, upper, lower) ==
  IF j > Len(allIndexes) THEN <<upper, lower>>
  ELSE IF myIndex # allIndexes[j]
       THEN LagrangeLoop(allIndexes, myIndex, target, modulus, j + 1,
                         bigIntUmod(upper * bigIntUmod(target - allIndexes[j], modulus), modulus),
                         bigIntUmod(lower * bigIntUmod(myIndex - allIndexes[j], modulus), modulus))
       ELSE LagrangeLoop(allIndexes, myIndex, target, modulus, j + 1, upper, lower)

\* the division left out: upper times lower instead of upper times the inverse of lower
getLagrangeCoeffNoInverse(allIndexes, myIndex, target, modulus) ==
  LET ul == LagrangeLoop(allIndexes, myIndex, target, modulus, 1, 1, 1)
  IN  bigIntUmod(ul[1] * ul[2], modulus)

getLagrangeCoeff(allIndexes, myIndex, target, modulus) ==
  LET ul == LagrangeLoop(allIndexes, myIndex, target, modulus, 1, 1, 1)
      inv == modularInverse(ul[2], modulus)
  IN  IF inv = InverseError THEN InverseError
      ELSE bigIntUmod(ul[1] * inv, modulus)

\* ------------------------------------------------------------------------
\* Curve adapter: points, encodings, ECIES
\* ------------------------------------------------------------------------
\* a point: its curve and its logarithm to the generator of that curve
Point(curve, k) == [curve |-> curve, k |-> k % CurveOrder(curve)]

G == Point(ecCurve, 1)                         \* this.ecCurve.g
ecCurveSecp256k1_g == Point("secp256k1", 1)    \* ecCurveSecp256k1.g
Infinity == Point(ecCurve, 0)                  \* g.add(g.neg())
PointNeg(p) == Point(p.curve, CurveOrder(p.curve) - p.k)                   \* p.neg()
PointAdd(p, q) == Point(p.curve, p.k + q.k)                                \* p.add(q)
PointMul(p, k) == Point(p.curve, p.k * bigIntUmod(k, CurveOrder(p.curve))) \* p.mul(k)

\* Affine coordinates of the point with logarithm k on a curve of order n: P and -P
\* share their x coordinate and differ in y. The coordinates of the points of
\* ed25519 are none of the coordinates of the points of secp256k1.
CoordBase(curve) == IF curve = "secp256k1" THEN 0 ELSE Secp256k1_n
AffineX(p) ==
  CoordBase(p.curve) + (IF p.k <= CurveOrder(p.curve) - p.k THEN p.k ELSE CurveOrder(p.curve) - p.k)
AffineY(p) == IF p.k <= CurveOrder(p.curve) - p.k THEN 0 ELSE 1

\* hexPoint(p): the identity is {x: null, y: null}
hexPoint(p) ==
  IF p.k = 0 THEN [x |-> NULL, y |-> NULL]
  ELSE [x |-> AffineX(p), y |-> AffineY(p)]

\* the y coordinate left out of the decoding
ecPointIgnoringY(curve, p) ==
  IF p.x = NULL /\ p.y = NULL THEN PointAdd(Point(curve, 1), PointNeg(Point(curve, 1)))
  ELSE Point(curve, p.x - CoordBase(curve))

\* ecPoint(ecCurve, p), for the coordinates of a point of ecCurve
ecPoint(curve, p) ==
  IF p.x = NULL /\ p.y = NULL THEN PointAdd(Point(curve, 1), PointNeg(Point(curve, 1)))
  ELSE IF p.y = 0 THEN Point(curve, p.x - CoordBase(curve))
       ELSE Point(curve, CurveOrder(curve) - (p.x - CoordBase(curve)))

\* encrypt(publicKey, msg): publicKey is "04" + x + y of a PointHex
encrypt(pub, msg) == [to |-> pub, msg |-> msg, mac |-> TRUE]

\* decrypt(privKey, msg): fails on a broken MAC and under any key but the one
\* the message was encrypted to
decrypt(privKey, enc) ==
  IF enc.mac /\ enc.to = hexPoint(PointMul(ecCurveSecp256k1_g, privKey)) THEN enc.msg ELSE DecryptError

\* the absent ciphertext: a null / undefined slot of an EncryptedMessage array
NoEnc == [to |-> [x |-> NULL, y |-> NULL], msg |-> NULL, mac |-> FALSE]

\* ------------------------------------------------------------------------
\* Test harness (test/test.ts): keys, the old and the new sharing
\* ------------------------------------------------------------------------
\* the runs of the harness: tssPrivKey, dkg2Priv and the random tape of the run
HarnessRuns == {[keyType |-> "secp256k1", tssPrivKey |-> 3, dkg2Priv |-> 11, seed |-> 0],
                [keyType |-> "ed25519", tssPrivKey |-> 11, dkg2Priv |-> 6, seed |-> 5]}
TargetIndexLists == {<<2>>, <<3>>, <<2, 3>>, <<3, 2>>}
OldLabel == "default0"
NewLabel == "default1"

\* serverPrivKeys[j], the client's temporary key, factorKeys[i]: distinct secp256k1 keys
serverPrivKey(j) == j
tempPrivKey == NumServers + 1
factorKey(i) == NumServers + 1 + i
serverPubKeys == [j \in Servers |-> hexPoint(PointMul(ecCurveSecp256k1_g, serverPrivKey(j)))]
tempPubKey == client.tempPubKey
factorPubsOf(len) == [i \in 1..len |-> hexPoint(PointMul(ecCurveSecp256k1_g, factorKey(i)))]

\* genKeyPair().getPrivate(): the value in 1..n-1 the tape `seed` holds for the k-th
\* draw of co-dealer `dealer` for target position i
Rand(seed, dealer, i, k) == 1 + ((seed + 3 * dealer + 5 * i + 7 * k) % (ecCurve_n - 1))
RandSeq(seed, dealer, i, first, len) == [k \in 1..len |-> Rand(seed, dealer, i, first + k - 1)]

\* the lists of len distinct server indexes, in every order
DistinctSeqs(len) ==
  {q \in [1..len -> Servers] : \A a, b \in 1..len : a # b => q[a] # q[b]}

\* masterPoly, serverPoly and serverPoly2 of the test: the old sharing of tssPrivKey
\* and the servers' sharing of dkg2Priv
HarnessMasterPoly(tssPrivKey, seed) ==
  generatePolynomial(1, tssPrivKey, RandSeq(seed, 2 * NumServers + 1, 0, 1, 1))
HarnessServerPoly(tssPrivKey, seed) ==
  generatePolynomial(serverThreshold - 1,
                     getShare(HarnessMasterPoly(tssPrivKey, seed), 1, ecCurve_n),
                     RandSeq(seed, 2 * NumServers + 2, 0, 1, serverThreshold - 1))
HarnessServerPoly2(dkg2Priv, seed) ==
  generatePolynomial(serverThreshold - 1, dkg2Priv,
                     RandSeq(seed, 2 * NumServers + 3, 0, 1, serverThreshold - 1))

\* ------------------------------------------------------------------------
\* The hierarchical sharing of one co-dealer (the client and each server)
\* ------------------------------------------------------------------------
\* _m and _s of one co-dealer for one target: the master polynomial with y-intercept
\* lc * secret and the server polynomial through its value at 1
DealerPolys(lc, secret, threshold, seed, dealer, i) ==
  LET m == generatePolynomial(1, bigIntUmod(lc * secret, ecCurve_n), RandSeq(seed, dealer, i, 1, 1))
  IN  [m |-> m,
       s |-> generatePolynomial(threshold - 1, getShare(m, 1, ecCurve_n),
                                RandSeq(seed, dealer, i, 2, threshold - 1))]

\* one RSSRound1ResponseData: the commitments to the coefficients of both
\* polynomials and the encrypted shares
SharingData(lc, secret, threshold, userTempPubkey, pubkeys, seed, dealer, i) ==
  LET polys == DealerPolys(lc, secret, threshold, seed, dealer, i)
      m == polys.m
      s == polys.s
  IN  [master_poly_commits |-> [k \in 1..Len(m) |-> hexPoint(PointMul(G, m[k]))],
       server_poly_commits |-> [k \in 1..Len(s) |-> hexPoint(PointMul(G, s[k]))],
       user_enc |-> encrypt(userTempPubkey, getShare(m, UserShareIndex, ecCurve_n)),
       server_encs |-> [j \in 1..Len(pubkeys) |-> encrypt(pubkeys[j], getShare(s, j, ecCurve_n))]]

\* _finalLagrangeCoeffs of the client in refresh
refreshLagrangeCoeffs(inputIndex, targetIndexes) ==
  LET L == getLagrangeCoeff(<<1, inputIndex>>, inputIndex, 0, ecCurve_n)
  IN  [i \in 1..Len(targetIndexes) |->
         bigIntUmod(L * getLagrangeCoeff(<<0, 1>>, 0, targetIndexes[i], ecCurve_n), ecCurve_n)]

\* the factor for the old share index left out, as in import
refreshClientRound1NoOldFactor(inputIndex, targetIndexes, inputShare, seed) ==
  [i \in 1..Len(targetIndexes) |->
     SharingData(bigIntUmod(getLagrangeCoeff(<<0, 1>>, 0, targetIndexes[i], ecCurve_n), ecCurve_n),
                 inputShare, serverThreshold, hexPoint(tempPubKey), serverPubKeys, seed, 0, i)]

\* the client's own contribution in refresh
refreshClientRound1(inputIndex, targetIndexes, inputShare, seed) ==
  [i \in 1..Len(targetIndexes) |->
     SharingData(refreshLagrangeCoeffs(inputIndex, targetIndexes)[i], inputShare, serverThreshold,
                 hexPoint(tempPubKey), serverPubKeys, seed, 0, i)]

\* _finalLagrangeCoeffs of refreshClientRound1Internal: the product is not reduced
refreshLagrangeCoeffsInternal(inputIndex, targetIndexes) ==
  LET L == getLagrangeCoeff(<<1, inputIndex>>, inputIndex, 0, ecCurve_n)
  IN  [i \in 1..Len(targetIndexes) |->
         L * bigIntUmod(getLagrangeCoeff(<<0, 1>>, 0, targetIndexes[i], ecCurve_n), ecCurve_n)]

\* the commitment as refreshClientRound1Internal writes it: the affine coordinates
\* of the point, the identity not told apart
bigIntPointToHexPoint(p) == [x |-> AffineX(p), y |-> AffineY(p)]

\* refreshClientRound1Internal: the client's contribution on bigint scalars
refreshClientRound1Internal(inputIndex, targetIndexes, inputShare, seed) ==
  [i \in 1..Len(targetIndexes) |->
     LET polys == DealerPolys(refreshLagrangeCoeffsInternal(inputIndex, targetIndexes)[i], inputShare,
                              serverThreshold, seed, 0, i)
     IN  [master_poly_commits |->
            [k \in 1..Len(polys.m) |-> bigIntPointToHexPoint(PointMul(G, polys.m[k]))],
          server_poly_commits |->
            [k \in 1..Len(polys.s) |-> bigIntPointToHexPoint(PointMul(G, polys.s[k]))],
          user_enc |-> encrypt(hexPoint(tempPubKey), getShare(polys.m, UserShareIndex, ecCurve_n)),
          server_encs |-> [j \in 1..Len(serverPubKeys) |->
                             encrypt(serverPubKeys[j], getShare(polys.s, j, ecCurve_n))]]]

\* _finalLagrangeCoeffs of the client in import
importLagrangeCoeffs(targetIndexes) ==
  [i \in 1..Len(targetIndexes) |->
     bigIntUmod(getLagrangeCoeff(<<0, 1>>, 0, targetIndexes[i], ecCurve_n), ecCurve_n)]

\* the factor of refresh for the old share index 2 kept in import
importClientRound1OldFactor(targetIndexes, importKey, seed) ==
  [i \in 1..Len(targetIndexes) |->
     SharingData(refreshLagrangeCoeffs(2, targetIndexes)[i], importKey, serverThreshold,
                 hexPoint(tempPubKey), serverPubKeys, seed, 0, i)]

\* the client's own contribution in import
importClientRound1(targetIndexes, importKey, seed) ==
  [i \in 1..Len(targetIndexes) |->
     SharingData(importLagrangeCoeffs(targetIndexes)[i], importKey, serverThreshold,
                 hexPoint(tempPubKey), serverPubKeys, seed, 0, i)]

\* the co-dealer number of a server's Round 1 answer on the random tape
DealerOf(b) == IF b.server_set = "old" THEN b.server_index ELSE NumServers + b.server_index

\* servers_info of RSSRound1Handler: the old or the new committee of the request
ServersInfoOf(b) == IF b.server_set = "old" THEN b.old_servers_info ELSE b.new_servers_info

\* the check on the target indexes left out
Round1RequestValidAnyTarget(b) ==
  /\ b.round_name = "rss_round_1"
  /\ b.server_set \in {"old", "new"}
  /\ (b.server_set = "old" => b.old_user_share_index \in {2, 3})
  /\ b.server_index > 0 /\ b.server_index <= Len(ServersInfoOf(b).pubkeys)
  /\ \A k \in 1..Len(ServersInfoOf(b).selected) :
        ServersInfoOf(b).selected[k] > 0 /\ ServersInfoOf(b).selected[k] <= Len(ServersInfoOf(b).pubkeys)
  /\ \E k \in 1..Len(ServersInfoOf(b).selected) : ServersInfoOf(b).selected[k] = b.server_index

\* the checks of RSSRound1Handler on the request body
Round1RequestValid(b) ==
  /\ b.round_name = "rss_round_1"
  /\ b.server_set \in {"old", "new"}
  /\ \A k \in 1..Len(b.target_index) : b.target_index[k] \in {2, 3}
  /\ (b.server_set = "old" => b.old_user_share_index \in {2, 3})
  /\ b.server_index > 0 /\ b.server_index <= Len(ServersInfoOf(b).pubkeys)
  /\ \A k \in 1..Len(ServersInfoOf(b).selected) :
        ServersInfoOf(b).selected[k] > 0 /\ ServersInfoOf(b).selected[k] <= Len(ServersInfoOf(b).pubkeys)
  /\ \E k \in 1..Len(ServersInfoOf(b).selected) : ServersInfoOf(b).selected[k] = b.server_index

\* the new set with the basis polynomial of index 0, as the old set has it
ServerLagrangeCoeffsIndex0(b) ==
  LET L0 == getLagrangeCoeff(ServersInfoOf(b).selected, b.server_index, 0, ecCurve_n)
      L == IF b.server_set = "old"
           THEN bigIntUmod(L0 * getLagrangeCoeff(<<1, b.old_user_share_index>>, 1, 0, ecCurve_n), ecCurve_n)
           ELSE L0
  IN  [i \in 1..Len(b.target_index) |->
         bigIntUmod(L * getLagrangeCoeff(<<0, 1>>, 0, b.target_index[i], ecCurve_n), ecCurve_n)]

\* the Lagrange coefficients of a server for the target indexes
ServerLagrangeCoeffs(b) ==
  LET L0 == getLagrangeCoeff(ServersInfoOf(b).selected, b.server_index, 0, ecCurve_n)
  IN  IF b.server_set = "old"
      THEN LET L == bigIntUmod(L0 * getLagrangeCoeff(<<1, b.old_user_share_index>>, 1, 0, ecCurve_n),
                               ecCurve_n)
           IN  [i \in 1..Len(b.target_index) |->
                  bigIntUmod(L * getLagrangeCoeff(<<0, 1>>, 0, b.target_index[i], ecCurve_n), ecCurve_n)]
      ELSE [i \in 1..Len(b.target_index) |->
              bigIntUmod(L0 * getLagrangeCoeff(<<0, 1>>, 1, b.target_index[i], ecCurve_n), ecCurve_n)]

\* RSSRound1Handler(body, getTSSShare)
RSSRound1Handler(b, tssServerShare, seed) ==
  IF ~Round1RequestValid(b) THEN [status |-> "error", target_index |-> b.target_index, data |-> <<>>]
  ELSE LET finalLagrangeCoeffs == ServerLagrangeCoeffs(b)
       IN  [status |-> "ok",
            target_index |-> b.target_index,
            data |-> [i \in 1..Len(b.target_index) |->
                        SharingData(finalLagrangeCoeffs[i], tssServerShare, b.new_servers_info.threshold,
                                    b.user_temp_pubkey, b.new_servers_info.pubkeys, seed, DealerOf(b), i)]]

\* the checks of the method MockServer.RSSRound1Handler on the request body: the
\* filter on selected compares b.server_index, not selectedIndex, with the number of
\* pubkeys
MockServerRound1RequestValid(b) ==
  /\ b.round_name = "rss_round_1"
  /\ b.server_set \in {"old", "new"}
  /\ \A k \in 1..Len(b.target_index) : b.target_index[k] \in {2, 3}
  /\ (b.server_set = "old" => b.old_user_share_index \in {2, 3})
  /\ b.server_index > 0 /\ b.server_index <= Len(ServersInfoOf(b).pubkeys)
  /\ \A k \in 1..Len(ServersInfoOf(b).selected) :
        ~(ServersInfoOf(b).selected[k] <= 0 \/ b.server_index > Len(ServersInfoOf(b).pubkeys))
  /\ \E k \in 1..Len(ServersInfoOf(b).selected) : ServersInfoOf(b).selected[k] = b.server_index

\* MockServer.RSSRound1Handler(body, getTSSShare)
MockServerRSSRound1Handler(b, tssServerShare, seed) ==
  IF ~MockServerRound1RequestValid(b) THEN [status |-> "error", target_index |-> b.target_index, data |-> <<>>]
  ELSE LET finalLagrangeCoeffs == ServerLagrangeCoeffs(b)
       IN  [status |-> "ok",
            target_index |-> b.target_index,
            data |-> [i \in 1..Len(b.target_index) |->
                        SharingData(finalLagrangeCoeffs[i], tssServerShare, b.new_servers_info.threshold,
                                    b.user_temp_pubkey, b.new_servers_info.pubkeys, seed, DealerOf(b), i)]]

\* ------------------------------------------------------------------------
\* Values of the state before anything happened
\* ------------------------------------------------------------------------
Pending == [status |-> "pending", target_index |-> <<>>, data |-> <<>>]
NoResult == [status |-> "none", factorEncs |-> <<>>]
NoRecover == [status |-> "none", target |-> 0, selectedServers |-> <<>>,
              serverEncs |-> <<>>, userEnc |-> NoEnc, tssShare |-> NULL]
NoTamper == [kind |-> "none", k |-> 0, i |-> 0, field |-> "none", idx |-> 0, original |-> NoEnc]
NoOpts == [op |-> "none"]
NoCall == [fn |-> "none"]
NoRet == [done |-> FALSE]

\* RSSClient fields set by the constructor
serverEndpoints == [j \in Servers |-> j]
tssPubKeyOf(e) == ecPoint(ecCurve, hexPoint(PointMul(G, e.tssPrivKey)))

KeyTypeError == "Invalid keyType, only secp256k1 or ed25519 is supported"

\* the options the harness constructs its client with, for a given opts.keyType
RSSClientOptions(e, keyType) ==
  [tssPubKey |-> hexPoint(PointMul(Point(e.keyType, 1), e.tssPrivKey)),
   serverEndpoints |-> serverEndpoints,
   serverThreshold |-> serverThreshold,
   serverPubKeys |-> serverPubKeys,
   tempKey |-> tempPrivKey,
   keyType |-> keyType]

\* an absent keyType taken as secp256k1 and the key type not looked at otherwise
RSSClientDefaulting(o) ==
  LET keyType == IF o.keyType = "undefined" THEN "secp256k1" ELSE o.keyType
  IN  [error |-> "ok",
       keyType |-> keyType,
       tssPubKey |-> ecPoint(keyType, o.tssPubKey),
       serverEndpoints |-> o.serverEndpoints,
       serverThreshold |-> o.serverThreshold,
       serverPubKeys |-> o.serverPubKeys,
       tempPrivKey |-> o.tempKey,
       tempPubKey |-> PointMul(ecCurveSecp256k1_g, o.tempKey)]

\* the temporary public key on the generator of the curve of the TSS key
RSSClientTssGenerator(o) ==
  IF o.keyType \notin KeyTypes THEN [error |-> KeyTypeError]
  ELSE [error |-> "ok",
        keyType |-> o.keyType,
        tssPubKey |-> ecPoint(o.keyType, o.tssPubKey),
        serverEndpoints |-> o.serverEndpoints,
        serverThreshold |-> o.serverThreshold,
        serverPubKeys |-> o.serverPubKeys,
        tempPrivKey |-> o.tempKey,
        tempPubKey |-> PointMul(Point(o.keyType, 1), o.tempKey)]

\* new RSSClient(opts): the fields of the client, or the error the constructor throws
RSSClient(o) ==
  IF o.keyType \notin KeyTypes THEN [error |-> KeyTypeError]
  ELSE [error |-> "ok",
        keyType |-> o.keyType,
        tssPubKey |-> ecPoint(o.keyType, o.tssPubKey),
        serverEndpoints |-> o.serverEndpoints,
        serverThreshold |-> o.serverThreshold,
        serverPubKeys |-> o.serverPubKeys,
        tempPrivKey |-> o.tempKey,
        tempPubKey |-> PointMul(ecCurveSecp256k1_g, o.tempKey)]

\* shareDB of the servers after the harness posted /tss_share for both labels
HarnessShareDB(e) ==
  LET serverPoly == HarnessServerPoly(e.tssPrivKey, e.seed)
      serverPoly2 == HarnessServerPoly2(e.dkg2Priv, e.seed)
  IN  [j \in Servers |->
         [label \in {OldLabel, NewLabel} |->
            IF label = OldLabel
            THEN getShare(serverPoly, j, CurveOrder(e.keyType))
            ELSE getShare(serverPoly2, j, CurveOrder(e.keyType))]]

\* store of the servers after the harness posted /private_key
HarnessStore == [j \in Servers |-> [privKey |-> serverPrivKey(j)]]

\* the nonce tables: the harness sets no nonce
HarnessNonces == [j \in Servers |-> <<>>]

\* the harness after set-up: servers loaded with their shares, client constructed
Constructed ==
  /\ env \in HarnessRuns
  /\ client = RSSClient(RSSClientOptions(env, env.keyType))
  /\ shareDB = HarnessShareDB(env)
  /\ store = HarnessStore
  /\ tssNonce = HarnessNonces
  /\ pc = "idle"
  /\ opts = NoOpts
  /\ round1Reqs = <<>>
  /\ round1Resps = <<>>
  /\ sums = <<>>
  /\ userShares = <<>>
  /\ userFactorEncs = <<>>
  /\ round2Reqs = <<>>
  /\ round2Resps = <<>>
  /\ result = NoResult
  /\ recovered = NoRecover
  /\ tampered = NoTamper
  /\ suspended = <<>>

Init ==
  /\ Constructed
  /\ call = NoCall
  /\ ret = NoRet

\* ------------------------------------------------------------------------
\* RSSClient.refresh / RSSClient.import up to the await of the Round 1 promises
\* ------------------------------------------------------------------------
ServersInfo(selectedServers) ==
  [pubkeys |-> serverPubKeys, selected |-> selectedServers, threshold |-> serverThreshold]
NoServersInfo == [pubkeys |-> <<>>, selected |-> <<>>, threshold |-> 0]

\* every request carrying the old label
Round1RequestOldLabel(set, ind, o, label) ==
  [round_name |-> "rss_round_1",
   server_set |-> set,
   server_index |-> ind,
   old_servers_info |-> IF o.op = "refresh" THEN ServersInfo(o.selectedServers) ELSE NoServersInfo,
   new_servers_info |-> ServersInfo(o.selectedServers),
   old_user_share_index |-> o.inputIndex,
   user_temp_pubkey |-> hexPoint(tempPubKey),
   target_index |-> o.targetIndexes,
   label |-> o.oldLabel]

\* the body of the /rss_round_1 request posted to serverEndpoints[ind - 1]
Round1Request(set, ind, o, label) ==
  [round_name |-> "rss_round_1",
   server_set |-> set,
   server_index |-> ind,
   old_servers_info |-> IF o.op = "refresh" THEN ServersInfo(o.selectedServers) ELSE NoServersInfo,
   new_servers_info |-> ServersInfo(o.selectedServers),
   old_user_share_index |-> o.inputIndex,
   user_temp_pubkey |-> hexPoint(tempPubKey),
   target_index |-> o.targetIndexes,
   label |-> label]

LengthError == "inconsistent factorPubs and targetIndexes lengths"

\* the length check left out
OptionsErrorNone(o) == "ok"

\* the check on the options at the head of refresh and import
OptionsError(o) == IF Len(o.factorPubs) # Len(o.targetIndexes) THEN LengthError ELSE "ok"

\* the lists a caller passes as selectedServers
SelectedServerLists == DistinctSeqs(serverThreshold)

\* the options a caller passes: inputShare is the caller's share of the old sharing
RefreshOptions(e, ii, ti, sel, fl) ==
  [op |-> "refresh", inputIndex |-> ii,
   inputShare |-> getShare(HarnessMasterPoly(e.tssPrivKey, e.seed), ii, ecCurve_n),
   targetIndexes |-> ti, selectedServers |-> sel, factorPubs |-> factorPubsOf(fl),
   dkgNewPub |-> hexPoint(PointMul(G, e.dkg2Priv)), oldLabel |-> OldLabel, newLabel |-> NewLabel]

\* import: the key imported is the key of tssPubKey
ImportOptions(e, ti, sel, fl) ==
  [op |-> "import", inputIndex |-> NULL, inputShare |-> e.tssPrivKey,
   targetIndexes |-> ti, selectedServers |-> sel, factorPubs |-> factorPubsOf(fl),
   dkgNewPub |-> hexPoint(PointMul(G, e.dkg2Priv)), oldLabel |-> OldLabel, newLabel |-> NewLabel]

refresh(o) ==
  /\ pc = "idle"
  /\ opts' = o
  /\ IF OptionsError(o) # "ok"
     THEN /\ pc' = "done"
          /\ result' = [status |-> OptionsError(o), factorEncs |-> <<>>]
          /\ UNCHANGED <<round1Reqs, round1Resps>>
     ELSE /\ pc' = "round1"
          /\ round1Reqs' =
               [k \in 1..Len(o.selectedServers) |-> Round1Request("old", o.selectedServers[k], o, o.oldLabel)]
               \o [k \in 1..Len(o.selectedServers) |-> Round1Request("new", o.selectedServers[k], o, o.newLabel)]
          /\ round1Resps' =
               [k \in 1..(2 * Len(o.selectedServers)) |-> Pending]
               \o <<[status |-> "ok", target_index |-> o.targetIndexes,
                     data |-> refreshClientRound1(o.inputIndex, o.targetIndexes, o.inputShare, env.seed)]>>
          /\ UNCHANGED result
  /\ UNCHANGED <<call, ret, client, store, tssNonce, suspended>>
  /\ UNCHANGED <<env, shareDB, sums, userShares, userFactorEncs, round2Reqs, round2Resps, recovered, tampered>>

import(o) ==
  /\ pc = "idle"
  /\ opts' = o
  /\ IF OptionsError(o) # "ok"
     THEN /\ pc' = "done"
          /\ result' = [status |-> OptionsError(o), factorEncs |-> <<>>]
          /\ UNCHANGED <<round1Reqs, round1Resps>>
     ELSE /\ pc' = "round1"
          /\ round1Reqs' =
               [k \in 1..Len(o.selectedServers) |-> Round1Request("new", o.selectedServers[k], o, o.newLabel)]
          /\ round1Resps' =
               [k \in 1..Len(o.selectedServers) |-> Pending]
               \o <<[status |-> "ok", target_index |-> o.targetIndexes,
                     data |-> importClientRound1(o.targetIndexes, o.inputShare, env.seed)]>>
          /\ UNCHANGED result
  /\ UNCHANGED <<call, ret, client, store, tssNonce, suspended>>
  /\ UNCHANGED <<env, shareDB, sums, userShares, userFactorEncs, round2Reqs, round2Resps, recovered, tampered>>

\* a server that deletes the share it has dealt from its shareDB
RSSRound1ConsumingShare(k) ==
  /\ pc = "round1"
  /\ k \in 1..Len(round1Reqs)
  /\ round1Resps[k] = Pending
  /\ round1Resps' = [round1Resps EXCEPT ![k] =
        RSSRound1Handler(round1Reqs[k], shareDB[round1Reqs[k].server_index][round1Reqs[k].label], env.seed)]
  /\ shareDB' = [shareDB EXCEPT ![round1Reqs[k].server_index][round1Reqs[k].label] = NULL]
  /\ UNCHANGED <<call, ret, client, store, tssNonce, suspended>>
  /\ UNCHANGED <<env, pc, opts, round1Reqs, sums, userShares, userFactorEncs, round2Reqs, round2Resps,
                 result, recovered, tampered>>

\* the answer to the request at position k stored at the first position that has no
\* answer yet: responses kept by arrival
RSSRound1ByArrival(k) ==
  /\ pc = "round1"
  /\ k \in 1..Len(round1Reqs)
  /\ round1Resps[k] = Pending
  /\ LET free == CHOOSE f \in 1..Len(round1Reqs) :
                    round1Resps[f] = Pending /\ \A g \in 1..(f - 1) : round1Resps[g] # Pending
     IN  round1Resps' = [round1Resps EXCEPT ![free] =
            RSSRound1Handler(round1Reqs[k], shareDB[round1Reqs[k].server_index][round1Reqs[k].label], env.seed)]
  /\ UNCHANGED <<call, ret, client, store, tssNonce, suspended>>
  /\ UNCHANGED <<env, shareDB, pc, opts, round1Reqs, sums, userShares, userFactorEncs, round2Reqs, round2Resps,
                 result, recovered, tampered>>

\* a mock server answers the Round 1 request at promise position k
RSSRound1(k) ==
  /\ pc = "round1"
  /\ k \in 1..Len(round1Reqs)
  /\ round1Resps[k] = Pending
  /\ round1Resps' = [round1Resps EXCEPT ![k] =
        RSSRound1Handler(round1Reqs[k], shareDB[round1Reqs[k].server_index][round1Reqs[k].label], env.seed)]
  /\ UNCHANGED <<call, ret, client, store, tssNonce, suspended>>
  /\ UNCHANGED <<env, shareDB, pc, opts, round1Reqs, sums, userShares, userFactorEncs, round2Reqs, round2Resps,
                 result, recovered, tampered>>

\* ------------------------------------------------------------------------
\* The client after Round 1: aggregation, checks, user shares, transpose
\* ------------------------------------------------------------------------
MasterShapeError == "incorrect number of coeffs for master poly commits"
ServerShapeError == "incorrect number of coeffs for server poly commits"
TSSPubKeyMismatch == "master poly commits inconsistent with tssPubKey"
ServerMasterCommitMismatch == "server poly commits inconsistent with master poly commits"
UserShareMismatch == "decrypted user shares inconsistent with poly commits"
DecryptFailed == "decrypt failed"
Round1Failed == "rss_round_1 request failed"
NotEnoughServers == "not enough servers responded"
UndefinedAccess == "cannot read properties of undefined"

\* the first entry of errs that is not "ok"
RECURSIVE FirstError(_, _)
FirstError(errs, k) ==
  IF k > Len(errs) THEN "ok"
  ELSE IF errs[k] # "ok" THEN errs[k] ELSE FirstError(errs, k + 1)

\* the length checks on the commitments of every response for target position i
RECURSIVE CommitShapeLoop(_, _, _)
CommitShapeLoop(resps, i, j) ==
  IF j > Len(resps) THEN "ok"
  ELSE IF Len(resps[j].data[i].master_poly_commits) # 2 THEN MasterShapeError
  ELSE IF Len(resps[j].data[i].server_poly_commits) # serverThreshold THEN ServerShapeError
  ELSE CommitShapeLoop(resps, i, j + 1)

\* sumMasterPolyCommits and sumServerPolyCommits over the responses
RECURSIVE SumLoop(_, _, _, _, _)
SumLoop(resps, i, j, mc, sc) ==
  IF j > Len(resps) THEN [mc |-> mc, sc |-> sc]
  ELSE LET d == resps[j].data[i]
       IN  IF Len(mc) = 0 /\ Len(sc) = 0
           THEN SumLoop(resps, i, j + 1,
                        [k \in 1..Len(d.master_poly_commits) |-> ecPoint(ecCurve, d.master_poly_commits[k])],
                        [k \in 1..Len(d.server_poly_commits) |-> ecPoint(ecCurve, d.server_poly_commits[k])])
           ELSE SumLoop(resps, i, j + 1,
                        [k \in 1..Len(mc) |-> PointAdd(ecPoint(ecCurve, d.master_poly_commits[k]), mc[k])],
                        [k \in 1..Len(sc) |-> PointAdd(ecPoint(ecCurve, d.server_poly_commits[k]), sc[k])])

SumCommits(resps, i) == SumLoop(resps, i, 1, <<>>, <<>>)

\* check master poly commits are consistent with tssPubKey
TSSPubKeyCheck(target, dkgNewPub, mc, tssPubKey) ==
  LET temp1 == PointMul(ecPoint(ecCurve, dkgNewPub), getLagrangeCoeff(<<1, target>>, 1, 0, ecCurve_n))
      temp2 == PointMul(mc[1], getLagrangeCoeff(<<1, target>>, target, 0, ecCurve_n))
  IN  PointAdd(temp1, temp2) = tssPubKey

\* the server/master check left out
ServerMasterCheckSkipped(mc, sc) == TRUE

\* check server poly commits are consistent with master poly commits
ServerMasterCheck(mc, sc) == PointAdd(mc[1], mc[2]) = sc[1]

\* the front end checks for target position i
CommitChecks(o, sm, i, tssPubKey) ==
  IF ~TSSPubKeyCheck(o.targetIndexes[i], o.dkgNewPub, sm[i].mc, tssPubKey) THEN TSSPubKeyMismatch
  ELSE IF ~ServerMasterCheck(sm[i].mc, sm[i].sc) THEN ServerMasterCommitMismatch
  ELSE "ok"

\* userDecs of target position i
UserDecs(resps, i) == [j \in 1..Len(resps) |-> decrypt(tempPrivKey, resps[j].data[i].user_enc)]

RECURSIVE SumMod(_, _, _)
SumMod(decs, k, acc) ==
  IF k > Len(decs) THEN acc ELSE SumMod(decs, k + 1, bigIntUmod(acc + decs[k], ecCurve_n))

UserShare(resps, i) == SumMod(UserDecs(resps, i), 1, 0)

\* the user share check left out
UserShareCheckSkipped(userShare, mc) == TRUE

\* the master polynomial evaluated at x = 99 on the commitments
UserShareCheck(userShare, mc) ==
  PointMul(G, userShare) = PointAdd(mc[1], PointMul(mc[2], UserShareIndex))

\* a rejected decrypt swallowed: the sum goes on to the check
UserShareChecksNoReject(resps, sm, i) ==
  IF ~UserShareCheck(UserShare(resps, i), sm[i].mc) THEN UserShareMismatch
  ELSE "ok"

\* the decryption of the user_enc of every co-dealer and the check of their sum
UserShareChecks(resps, sm, i) ==
  IF \E j \in 1..Len(resps) : UserDecs(resps, i)[j] = DecryptError THEN DecryptFailed
  ELSE IF ~UserShareCheck(UserShare(resps, i), sm[i].mc) THEN UserShareMismatch
  ELSE "ok"

\* the number of co-dealers whose ciphertexts go into one column
ColumnLength(op) == IF op = "refresh" THEN serverThreshold * 2 + 1 ELSE serverThreshold + 1

\* the columns with the ciphertext of the last co-dealer moved to the front
TransposeClientFirst(resps, i, op) ==
  [j \in 1..Len(serverEndpoints) |->
     [k \in 1..ColumnLength(op) |->
        IF k = 1 THEN resps[ColumnLength(op)].data[i].server_encs[j]
        ELSE resps[k - 1].data[i].server_encs[j]]]

\* the column of server j filled with the ciphertexts for its neighbour
TransposeShifted(resps, i, op) ==
  [j \in 1..Len(serverEndpoints) |->
     [k \in 1..ColumnLength(op) |-> resps[k].data[i].server_encs[(j % Len(serverEndpoints)) + 1]]]

\* serverEncsToSend of target position i: the matrix of server_encs flipped
Transpose(resps, i, op) ==
  [j \in 1..Len(serverEndpoints) |->
     [k \in 1..ColumnLength(op) |-> resps[k].data[i].server_encs[j]]]

\* the user share checks left out
Round1ErrorNoShareCheck(o, resps, tssPubKey) ==
  LET targets == 1..Len(o.targetIndexes)
      sm == [i \in targets |-> SumCommits(resps, i)]
  IN  IF \E j \in 1..Len(resps) : resps[j].status = "error" THEN Round1Failed
      ELSE LET shape == FirstError([i \in targets |-> CommitShapeLoop(resps, i, 1)], 1)
           IN  IF shape # "ok" THEN shape
               ELSE LET commit == FirstError([i \in targets |-> CommitChecks(o, sm, i, tssPubKey)], 1)
                    IN  IF commit # "ok" THEN commit
                        ELSE IF ColumnLength(o.op) > Len(resps) THEN UndefinedAccess
                        ELSE "ok"

\* the user_enc of every co-dealer decrypted ahead of the length checks
Round1ErrorDecryptFirst(o, resps, tssPubKey) ==
  LET targets == 1..Len(o.targetIndexes)
      sm == [i \in targets |-> SumCommits(resps, i)]
  IN  IF \E j \in 1..Len(resps) : resps[j].status = "error" THEN Round1Failed
      ELSE IF \E i \in targets, j \in 1..Len(resps) : UserDecs(resps, i)[j] = DecryptError THEN DecryptFailed
      ELSE LET shape == FirstError([i \in targets |-> CommitShapeLoop(resps, i, 1)], 1)
           IN  IF shape # "ok" THEN shape
               ELSE LET commit == FirstError([i \in targets |-> CommitChecks(o, sm, i, tssPubKey)], 1)
                    IN  IF commit # "ok" THEN commit
                        ELSE LET share == FirstError([i \in targets |-> UserShareChecks(resps, sm, i)], 1)
                             IN  IF share # "ok" THEN share
                                 ELSE IF ColumnLength(o.op) > Len(resps) THEN UndefinedAccess
                                 ELSE "ok"

\* rejected requests tolerated while T servers answered: the checks run on the
\* answers (the client's own among them) alone
Round1ErrorTolerant(o, resps, tssPubKey) ==
  LET targets == 1..Len(o.targetIndexes)
      answered == SelectSeq(resps, LAMBDA r : r.status = "ok")
      sm == [i \in targets |-> SumCommits(answered, i)]
  IN  IF Len(answered) - 1 < serverThreshold THEN Round1Failed
      ELSE LET shape == FirstError([i \in targets |-> CommitShapeLoop(answered, i, 1)], 1)
           IN  IF shape # "ok" THEN shape
               ELSE LET commit == FirstError([i \in targets |-> CommitChecks(o, sm, i, tssPubKey)], 1)
                    IN  IF commit # "ok" THEN commit
                        ELSE LET share == FirstError([i \in targets |-> UserShareChecks(answered, sm, i)], 1)
                             IN  IF share # "ok" THEN share
                                 ELSE IF ColumnLength(o.op) > Len(answered) THEN UndefinedAccess
                                 ELSE "ok"

\* the error the client throws after the Round 1 promises settled, or "ok": a rejected
\* request, then the shapes and sums of every target, then the commitment checks of
\* every target, then the decryption and the check of every user share
Round1Error(o, resps, tssPubKey) ==
  LET targets == 1..Len(o.targetIndexes)
      sm == [i \in targets |-> SumCommits(resps, i)]
  IN  IF \E j \in 1..Len(resps) : resps[j].status = "error" THEN Round1Failed
      ELSE LET shape == FirstError([i \in targets |-> CommitShapeLoop(resps, i, 1)], 1)
           IN  IF shape # "ok" THEN shape
               ELSE LET commit == FirstError([i \in targets |-> CommitChecks(o, sm, i, tssPubKey)], 1)
                    IN  IF commit # "ok" THEN commit
                        ELSE LET share == FirstError([i \in targets |-> UserShareChecks(resps, sm, i)], 1)
                             IN  IF share # "ok" THEN share
                                 ELSE IF ColumnLength(o.op) > Len(resps) THEN UndefinedAccess
                                 ELSE "ok"

\* everything from the await of the Round 1 promises to the Round 2 requests
ClientAfterRound1(o, resps, tssPubKey) ==
  LET targets == 1..Len(o.targetIndexes)
      error == Round1Error(o, resps, tssPubKey)
      shares == [i \in targets |-> UserShare(resps, i)]
  IN  IF error # "ok"
      THEN [error |-> error, sums |-> <<>>, userShares |-> <<>>, userFactorEncs |-> <<>>, serverEncs |-> <<>>]
      ELSE [error |-> "ok",
            sums |-> [i \in targets |-> SumCommits(resps, i)],
            userShares |-> shares,
            userFactorEncs |-> [i \in targets |-> encrypt(o.factorPubs[i], shares[i])],
            serverEncs |-> [i \in targets |-> Transpose(resps, i, o.op)]]

Round2Request(ind, o, out) ==
  [round_name |-> "rss_round_2",
   server_index |-> ind,
   target_index |-> o.targetIndexes,
   data |-> [i \in 1..Len(o.targetIndexes) |->
               [master_commits |-> [k \in 1..Len(out.sums[i].mc) |-> hexPoint(out.sums[i].mc[k])],
                server_commits |-> [k \in 1..Len(out.sums[i].sc) |-> hexPoint(out.sums[i].sc[k])],
                server_encs |-> out.serverEncs[i][ind],
                factor_pubkeys |-> <<o.factorPubs[i]>>]]]

Round2Pending == [status |-> "pending", data |-> <<>>]
Round2Null == [status |-> "null", data |-> <<>>]

\* Promise.all(rssRound1Proms) has resolved (every promise has) or rejected (one
\* promise has, whatever the state of the others): the client goes on
ClientRound2 ==
  /\ pc = "round1"
  /\ \/ \A k \in 1..Len(round1Resps) : round1Resps[k] # Pending
     \/ \E k \in 1..Len(round1Resps) : round1Resps[k].status = "error"
  /\ \E out \in {ClientAfterRound1(opts, round1Resps, tssPubKeyOf(env))} :
         IF out.error # "ok"
         THEN /\ pc' = "done"
              /\ result' = [status |-> out.error, factorEncs |-> <<>>]
              /\ UNCHANGED <<sums, userShares, userFactorEncs, round2Reqs, round2Resps>>
         ELSE /\ pc' = "round2"
              /\ sums' = out.sums
              /\ userShares' = out.userShares
              /\ userFactorEncs' = out.userFactorEncs
              /\ round2Reqs' = [ind \in 1..Len(serverEndpoints) |-> Round2Request(ind, opts, out)]
              /\ round2Resps' = [ind \in 1..Len(serverEndpoints) |-> Round2Pending]
              /\ UNCHANGED result
  /\ UNCHANGED <<call, ret, client, store, tssNonce, suspended>>
  /\ UNCHANGED <<env, shareDB, opts, round1Reqs, round1Resps, recovered, tampered>>

\* ------------------------------------------------------------------------
\* Round 2 on the mock server, and the end of the call
\* ------------------------------------------------------------------------
\* _gDec: the server polynomial evaluated at server_index on the commitments
RECURSIVE CommitEval(_, _, _, _)
CommitEval(serverCommits, ind, j, acc) ==
  IF j > Len(serverCommits) THEN acc
  ELSE CommitEval(serverCommits, ind, j + 1,
                  PointAdd(acc, PointMul(serverCommits[j], Pow(ind, j - 1))))

\* the comparison of the master commitments with the server commitments left out
Round2DataNoMasterCheck(d, ind, privKey) ==
  LET serverCommits == [k \in 1..Len(d.server_commits) |-> ecPoint(ecCurve, d.server_commits[k])]
      decs == [k \in 1..Len(d.server_encs) |-> decrypt(privKey, d.server_encs[k])]
      dec == SumMod(decs, 1, 0)
  IN  IF \E k \in 1..Len(decs) : decs[k] = DecryptError THEN <<>>
      ELSE IF PointMul(G, dec) # CommitEval(serverCommits, ind, 2, serverCommits[1]) THEN <<>>
      ELSE [k \in 1..Len(d.factor_pubkeys) |-> encrypt(d.factor_pubkeys[k], dec)]

\* one element of b.data in RSSRound2Handler: "error" or the encs of the summed share
Round2Data(d, ind, privKey) ==
  LET masterCommits == [k \in 1..Len(d.master_commits) |-> ecPoint(ecCurve, d.master_commits[k])]
      serverCommits == [k \in 1..Len(d.server_commits) |-> ecPoint(ecCurve, d.server_commits[k])]
      decs == [k \in 1..Len(d.server_encs) |-> decrypt(privKey, d.server_encs[k])]
      dec == SumMod(decs, 1, 0)
  IN  IF PointAdd(masterCommits[1], masterCommits[2]) # serverCommits[1] THEN <<>>
      ELSE IF \E k \in 1..Len(decs) : decs[k] = DecryptError THEN <<>>
      ELSE IF PointMul(G, dec) # CommitEval(serverCommits, ind, 2, serverCommits[1]) THEN <<>>
      ELSE [k \in 1..Len(d.factor_pubkeys) |-> encrypt(d.factor_pubkeys[k], dec)]

\* RSSRound2Handler(body, getPrivKey): any failed check rejects the whole request
RSSRound2Handler(b, privKey) ==
  LET data == [i \in 1..Len(b.data) |-> Round2Data(b.data[i], b.server_index, privKey)]
  IN  IF b.round_name # "rss_round_2" \/ \E i \in 1..Len(data) : data[i] = <<>>
      THEN Round2Null
      ELSE [status |-> "ok", data |-> [i \in 1..Len(data) |-> [encs |-> data[i]]]]

\* mock server ind answers its Round 2 request; a rejection is caught and logged
RSSRound2(ind) ==
  /\ pc = "round2"
  /\ ind \in 1..Len(round2Reqs)
  /\ round2Resps[ind] = Round2Pending
  /\ round2Resps' = [round2Resps EXCEPT ![ind] = RSSRound2Handler(round2Reqs[ind], store[ind].privKey)]
  /\ UNCHANGED <<call, ret, client, store, tssNonce, suspended>>
  /\ UNCHANGED <<env, shareDB, pc, opts, round1Reqs, round1Resps, sums, userShares, userFactorEncs,
                 round2Reqs, result, recovered, tampered>>

\* the Round 2 request to server ind fails (transport error, server down): .catch(log.error)
Round2Fail(ind) ==
  /\ pc = "round2"
  /\ ind \in 1..Len(round2Reqs)
  /\ round2Resps[ind] = Round2Pending
  /\ round2Resps' = [round2Resps EXCEPT ![ind] = Round2Null]
  /\ UNCHANGED <<call, ret, client, store, tssNonce, suspended>>
  /\ UNCHANGED <<env, shareDB, pc, opts, round1Reqs, round1Resps, sums, userShares, userFactorEncs,
                 round2Reqs, result, recovered, tampered>>

\* the null slots counted too
RespondedUnfiltered(resps) == Len(resps)

\* serverFactorEncs.filter((s) => s).length
Responded(resps) == Cardinality({ind \in 1..Len(resps) : resps[ind].status = "ok"})

\* the entries in the reverse order of the target indexes
FactorEncsReversed(o, resps, ufe) ==
  [i \in 1..Len(o.targetIndexes) |->
     [targetIndex |-> o.targetIndexes[Len(o.targetIndexes) + 1 - i],
      factorPub |-> o.factorPubs[Len(o.targetIndexes) + 1 - i],
      serverFactorEncs |-> [ind \in 1..Len(resps) |->
                              IF resps[ind].status = "ok"
                              THEN resps[ind].data[Len(o.targetIndexes) + 1 - i].encs[1] ELSE NoEnc],
      userFactorEnc |-> ufe[Len(o.targetIndexes) + 1 - i]]]

\* the RefreshResponse list built from the Round 2 responses
FactorEncs(o, resps, ufe) ==
  [i \in 1..Len(o.targetIndexes) |->
     [targetIndex |-> o.targetIndexes[i],
      factorPub |-> o.factorPubs[i],
      serverFactorEncs |-> [ind \in 1..Len(resps) |->
                              IF resps[ind].status = "ok" THEN resps[ind].data[i].encs[1] ELSE NoEnc],
      userFactorEnc |-> ufe[i]]]

\* the call going on only once T servers have answered
FinishOnceThreshold ==
  /\ pc = "round2"
  /\ \A ind \in 1..Len(round2Resps) : round2Resps[ind] # Round2Pending
  /\ Responded(round2Resps) >= serverThreshold
  /\ pc' = "done"
  /\ result' = [status |-> "ok", factorEncs |-> FactorEncs(opts, round2Resps, userFactorEncs)]
  /\ UNCHANGED <<call, ret, client, store, tssNonce, suspended>>
  /\ UNCHANGED <<env, shareDB, opts, round1Reqs, round1Resps, sums, userShares, userFactorEncs,
                 round2Reqs, round2Resps, recovered, tampered>>

\* the call returning as soon as T servers have answered, without waiting for the rest
FinishAtThreshold ==
  /\ pc = "round2"
  /\ \/ \A ind \in 1..Len(round2Resps) : round2Resps[ind] # Round2Pending
     \/ Responded(round2Resps) >= serverThreshold
  /\ pc' = "done"
  /\ result' = IF Responded(round2Resps) < serverThreshold
               THEN [status |-> NotEnoughServers, factorEncs |-> <<>>]
               ELSE [status |-> "ok", factorEncs |-> FactorEncs(opts, round2Resps, userFactorEncs)]
  /\ UNCHANGED <<call, ret, client, store, tssNonce, suspended>>
  /\ UNCHANGED <<env, shareDB, opts, round1Reqs, round1Resps, sums, userShares, userFactorEncs,
                 round2Reqs, round2Resps, recovered, tampered>>

\* Promise.all of the Round 2 requests has resolved: the threshold check and the result
Finish ==
  /\ pc = "round2"
  /\ \A ind \in 1..Len(round2Resps) : round2Resps[ind] # Round2Pending
  /\ pc' = "done"
  /\ result' = IF Responded(round2Resps) < serverThreshold
               THEN [status |-> NotEnoughServers, factorEncs |-> <<>>]
               ELSE [status |-> "ok", factorEncs |-> FactorEncs(opts, round2Resps, userFactorEncs)]
  /\ UNCHANGED <<call, ret, client, store, tssNonce, suspended>>
  /\ UNCHANGED <<env, shareDB, opts, round1Reqs, round1Resps, sums, userShares, userFactorEncs,
                 round2Reqs, round2Resps, recovered, tampered>>

\* ------------------------------------------------------------------------
\* recover
\* ------------------------------------------------------------------------
\* decryptedServerEncs.filter((_, j) => selectedServers.indexOf(j + 1) >= 0)
RECURSIVE FilterSelected(_, _, _)
FilterSelected(decrypted, selectedServers, j) ==
  IF j > Len(decrypted) THEN <<>>
  ELSE IF \E k \in 1..Len(selectedServers) : selectedServers[k] = j
       THEN <<decrypted[j]>> \o FilterSelected(decrypted, selectedServers, j + 1)
       ELSE FilterSelected(decrypted, selectedServers, j + 1)

\* recover(opts): the tssShare, or the error the call rejects with
recover(factorKeyBN, serverEncs, userEnc, selectedServers, keyType) ==
  LET n == CurveOrder(keyType)
      decryptedUserEnc == decrypt(factorKeyBN, userEnc)
      decryptedServerEncs ==
        [j \in 1..Len(serverEncs) |->
           IF serverEncs[j] = NoEnc THEN NULL ELSE decrypt(factorKeyBN, serverEncs[j])]
      someDecrypted == FilterSelected(decryptedServerEncs, selectedServers, 1)
      decryptedLCs == [k \in 1..Len(selectedServers) |->
                         getLagrangeCoeff(selectedServers, selectedServers[k], 0, n)]
      temp1 == decryptedUserEnc * getLagrangeCoeff(<<1, UserShareIndex>>, UserShareIndex, 0, n)
      dot == dotProduct(someDecrypted, decryptedLCs)
      serverReconstructed == bigIntUmod(dot, n)
      temp2 == serverReconstructed * getLagrangeCoeff(<<1, UserShareIndex>>, 1, 0, n)
  IN  IF keyType \notin KeyTypes THEN InvalidKeyType
      ELSE IF decryptedUserEnc = DecryptError THEN DecryptError
      ELSE IF \E j \in 1..Len(serverEncs) : decryptedServerEncs[j] = DecryptError THEN DecryptError
      ELSE IF dot < 0 THEN dot
      ELSE bigIntUmod(temp1 + temp2, n)

\* the caller recovers the share of target position i from the returned RefreshResponse
Recover(i, sel) ==
  /\ pc = "done"
  /\ result.status = "ok"
  /\ recovered = NoRecover
  /\ i \in 1..Len(result.factorEncs)
  /\ \E r \in {result.factorEncs[i]} :
       \E share \in {recover(factorKey(i), r.serverFactorEncs, r.userFactorEnc, sel, env.keyType)} :
         recovered' = [status |-> IF share < 0 THEN "error" ELSE "ok",
                       target |-> i, selectedServers |-> sel,
                       serverEncs |-> r.serverFactorEncs, userEnc |-> r.userFactorEnc,
                       tssShare |-> share]
  /\ UNCHANGED <<call, ret, client, store, tssNonce, suspended>>
  /\ UNCHANGED <<env, shareDB, pc, opts, round1Reqs, round1Resps, sums, userShares, userFactorEncs,
                 round2Reqs, round2Resps, result, tampered>>

\* the call and its recover are over: the same client and the same servers are there
\* for the next call
NewCall ==
  /\ pc = "done"
  /\ pc' = "idle"
  /\ opts' = NoOpts
  /\ round1Reqs' = <<>>
  /\ round1Resps' = <<>>
  /\ sums' = <<>>
  /\ userShares' = <<>>
  /\ userFactorEncs' = <<>>
  /\ round2Reqs' = <<>>
  /\ round2Resps' = <<>>
  /\ result' = NoResult
  /\ recovered' = NoRecover
  /\ tampered' = NoTamper
  /\ UNCHANGED <<call, ret, env, client, shareDB, store, tssNonce, suspended>>

\* ------------------------------------------------------------------------
\* Specification: calls against honest servers, some of which fail in Round 2
\* ------------------------------------------------------------------------
Next ==
  \/ pc = "idle" /\ \E ii \in {2, 3}, ti \in TargetIndexLists, sel \in SelectedServerLists, fl \in 1..2 :
        refresh(RefreshOptions(env, ii, ti, sel, fl))
  \/ pc = "idle" /\ \E ti \in TargetIndexLists, sel \in SelectedServerLists, fl \in 1..2 :
        import(ImportOptions(env, ti, sel, fl))
  \/ \E k \in 1..(2 * serverThreshold) : RSSRound1(k)
  \/ ClientRound2
  \/ \E ind \in Servers : RSSRound2(ind)
  \/ \E ind \in Servers : Round2Fail(ind)
  \/ Finish
  \/ pc = "done" /\ recovered = NoRecover /\ \E i \in 1..2, sel \in SelectedServerLists : Recover(i, sel)
  \/ NewCall

Spec == Init /\ [][Next]_vars

\* ------------------------------------------------------------------------
\* A server that answers Round 1 with one altered value
\* ------------------------------------------------------------------------
Points == {Point(ecCurve, k) : k \in 0..(ecCurve_n - 1)}

\* the plaintexts the model draws from: decrypt returns a buffer of any length, so
\* the scalars and their first non-canonical representatives v + n
Plaintexts == 0..(2 * ecCurve_n - 1)

AllRound1Settled ==
  /\ pc = "round1"
  /\ \A k \in 1..Len(round1Resps) : round1Resps[k] # Pending

\* the response of the server at promise position k carries, for target position i,
\* another point in place of one of its commitments
TamperCommit ==
  /\ AllRound1Settled
  /\ tampered = NoTamper
  /\ \E k \in 1..Len(round1Reqs), i \in 1..Len(opts.targetIndexes), field \in {"master", "server"} :
       /\ round1Resps[k].status = "ok"
       /\ LET d == round1Resps[k].data[i]
              commits == IF field = "master" THEN d.master_poly_commits ELSE d.server_poly_commits
          IN  \E idx \in 1..Len(commits), p \in Points :
                /\ hexPoint(p) # commits[idx]
                /\ round1Resps' =
                     [round1Resps EXCEPT ![k].data[i] =
                        IF field = "master"
                        THEN [d EXCEPT !.master_poly_commits[idx] = hexPoint(p)]
                        ELSE [d EXCEPT !.server_poly_commits[idx] = hexPoint(p)]]
                /\ tampered' = [kind |-> "commit", k |-> k, i |-> i, field |-> field, idx |-> idx,
                                original |-> [to |-> commits[idx], msg |-> NULL, mac |-> FALSE]]
  /\ UNCHANGED <<call, ret, client, store, tssNonce, suspended>>
  /\ UNCHANGED <<env, shareDB, pc, opts, round1Reqs, sums, userShares, userFactorEncs,
                 round2Reqs, round2Resps, result, recovered>>

\* the ciphertexts that can stand in place of the user_enc e: another plaintext under
\* the same key, the same plaintext under another key, a broken MAC
AlteredEncs(e) ==
  ({[to |-> e.to, msg |-> m, mac |-> TRUE] : m \in Plaintexts}
     \cup {[e EXCEPT !.mac = FALSE], [e EXCEPT !.to = serverPubKeys[1]]}) \ {e}

\* the response of the server at promise position k carries, for target position i,
\* another ciphertext in place of its user_enc
TamperUserEnc ==
  /\ AllRound1Settled
  /\ tampered = NoTamper
  /\ \E k \in 1..Len(round1Reqs), i \in 1..Len(opts.targetIndexes) :
       /\ round1Resps[k].status = "ok"
       /\ \E e \in AlteredEncs(round1Resps[k].data[i].user_enc) :
            /\ round1Resps' = [round1Resps EXCEPT ![k].data[i].user_enc = e]
            /\ tampered' = [kind |-> "user_enc", k |-> k, i |-> i, field |-> "user_enc", idx |-> 0,
                            original |-> round1Resps[k].data[i].user_enc]
  /\ UNCHANGED <<call, ret, client, store, tssNonce, suspended>>
  /\ UNCHANGED <<env, shareDB, pc, opts, round1Reqs, sums, userShares, userFactorEncs,
                 round2Reqs, round2Resps, result, recovered>>

\* the calls of the tampering runs: the first T servers, matching factorPubs
FirstServers == [k \in 1..serverThreshold |-> k]
TamperTargetLists == {<<3>>, <<2, 3>>}

NextTamper ==
  \/ pc = "idle" /\ \E ii \in {2, 3}, ti \in TamperTargetLists :
        refresh(RefreshOptions(env, ii, ti, FirstServers, Len(ti)))
  \/ \E ti \in TamperTargetLists : import(ImportOptions(env, ti, FirstServers, Len(ti)))
  \/ \E k \in 1..(2 * serverThreshold) : RSSRound1(k)
  \/ TamperCommit
  \/ TamperUserEnc
  \/ ClientRound2
  \/ \E ind \in Servers : RSSRound2(ind)
  \/ Finish

SpecTamper == Init /\ [][NextTamper]_vars

\* ------------------------------------------------------------------------
\* A server that answers Round 1 with a commitment list of another length
\* ------------------------------------------------------------------------
\* the response of the server at promise position k carries, for target position i,
\* a list of master or server commitments with one commitment less or one more, and
\* with it either its user_enc as it was or a user_enc that does not decrypt
TamperShape ==
  /\ AllRound1Settled
  /\ tampered = NoTamper
  /\ \E k \in 1..Len(round1Reqs), i \in 1..Len(opts.targetIndexes), field \in {"master", "server"},
        longer \in BOOLEAN, broken \in BOOLEAN :
       /\ round1Resps[k].status = "ok"
       /\ LET d == round1Resps[k].data[i]
              commits == IF field = "master" THEN d.master_poly_commits ELSE d.server_poly_commits
              altered == IF longer THEN Append(commits, commits[1]) ELSE SubSeq(commits, 1, Len(commits) - 1)
              enc == IF broken THEN [d.user_enc EXCEPT !.mac = FALSE] ELSE d.user_enc
          IN  /\ round1Resps' =
                   [round1Resps EXCEPT ![k].data[i] =
                      IF field = "master"
                      THEN [d EXCEPT !.master_poly_commits = altered, !.user_enc = enc]
                      ELSE [d EXCEPT !.server_poly_commits = altered, !.user_enc = enc]]
              /\ tampered' = [kind |-> "shape", k |-> k, i |-> i, field |-> field, idx |-> Len(altered),
                              original |-> d.user_enc]
  /\ UNCHANGED <<call, ret, client, store, tssNonce, suspended>>
  /\ UNCHANGED <<env, shareDB, pc, opts, round1Reqs, sums, userShares, userFactorEncs,
                 round2Reqs, round2Resps, result, recovered>>

NextShape ==
  \/ pc = "idle" /\ \E ii \in {2, 3}, ti \in TamperTargetLists :
        refresh(RefreshOptions(env, ii, ti, FirstServers, Len(ti)))
  \/ \E ti \in TamperTargetLists : import(ImportOptions(env, ti, FirstServers, Len(ti)))
  \/ \E k \in 1..(2 * serverThreshold) : RSSRound1(k)
  \/ TamperShape
  \/ ClientRound2
  \/ \E ind \in Servers : RSSRound2(ind)
  \/ Finish

SpecShape == Init /\ [][NextShape]_vars

\* ------------------------------------------------------------------------
\* A Round 2 request that reaches its server altered
\* ------------------------------------------------------------------------
\* the requests that can arrive in place of the element d of b.data: another point
\* in place of a commitment, another plaintext in a ciphertext of the column, a broken
\* MAC, a second factor public key
AlteredRound2Data(d) ==
  ({[d EXCEPT !.master_commits[idx] = hexPoint(p)] : idx \in 1..Len(d.master_commits), p \in Points}
     \cup {[d EXCEPT !.server_commits[idx] = hexPoint(p)] : idx \in 1..Len(d.server_commits), p \in Points}
     \cup {[d EXCEPT !.server_encs[1].msg = m] : m \in Plaintexts}
     \cup {[d EXCEPT !.server_encs[1].mac = FALSE]}
     \cup {[d EXCEPT !.factor_pubkeys = Append(d.factor_pubkeys, serverPubKeys[1])]}) \ {d}

\* the Round 2 request to server ind arrives with the element for target position i
\* altered, or with another round name
TamperRound2 ==
  /\ pc = "round2"
  /\ tampered = NoTamper
  /\ \A j \in 1..Len(round2Resps) : round2Resps[j] = Round2Pending
  /\ \E ind \in 1..Len(round2Reqs), i \in 1..Len(opts.targetIndexes) :
       /\ \/ \E d \in AlteredRound2Data(round2Reqs[ind].data[i]) :
               round2Reqs' = [round2Reqs EXCEPT ![ind].data[i] = d]
          \/ round2Reqs' = [round2Reqs EXCEPT ![ind].round_name = "rss_round_1"]
       /\ tampered' = [kind |-> "round2", k |-> ind, i |-> i, field |-> "data", idx |-> 0, original |-> NoEnc]
  /\ UNCHANGED <<call, ret, client, store, tssNonce, suspended>>
  /\ UNCHANGED <<env, shareDB, pc, opts, round1Reqs, round1Resps, sums, userShares, userFactorEncs,
                 round2Resps, result, recovered>>

NextRound2 ==
  \/ \E ti \in TamperTargetLists : refresh(RefreshOptions(env, 3, ti, FirstServers, Len(ti)))
  \/ \E ti \in TamperTargetLists : import(ImportOptions(env, ti, FirstServers, Len(ti)))
  \/ \E k \in 1..(2 * serverThreshold) : RSSRound1(k)
  \/ ClientRound2
  \/ TamperRound2
  \/ \E ind \in Servers : RSSRound2(ind)
  \/ Finish

SpecRound2 == Init /\ [][NextRound2]_vars

\* ------------------------------------------------------------------------
\* Requests that fail, in Round 1 and in Round 2
\* ------------------------------------------------------------------------
\* the Round 1 request at promise position k is rejected by the server or fails in
\* transport: post throws and the promise rejects
Round1Fail(k) ==
  /\ pc = "round1"
  /\ k \in 1..Len(round1Reqs)
  /\ round1Resps[k] = Pending
  /\ round1Resps' = [round1Resps EXCEPT ![k] =
        [status |-> "error", target_index |-> round1Reqs[k].target_index, data |-> <<>>]]
  /\ UNCHANGED <<call, ret, client, store, tssNonce, suspended>>
  /\ UNCHANGED <<env, shareDB, pc, opts, round1Reqs, sums, userShares, userFactorEncs, round2Reqs, round2Resps,
                 result, recovered, tampered>>

NextFail ==
  \/ pc = "idle" /\ \E ii \in {2, 3}, ti \in TamperTargetLists :
        refresh(RefreshOptions(env, ii, ti, FirstServers, Len(ti)))
  \/ \E ti \in TamperTargetLists : import(ImportOptions(env, ti, FirstServers, Len(ti)))
  \/ \E k \in 1..(2 * serverThreshold) : RSSRound1(k)
  \/ \E k \in 1..(2 * serverThreshold) : Round1Fail(k)
  \/ ClientRound2
  \/ \E ind \in Servers : RSSRound2(ind)
  \/ \E ind \in Servers : Round2Fail(ind)
  \/ Finish

SpecFail == Init /\ [][NextFail]_vars

\* every request issued settles in the end (post resolves or rejects), and the
\* continuation of an await runs once its promise has settled
SpecSettle ==
  /\ Init /\ [][NextFail]_vars
  /\ \A k \in 1..(2 * serverThreshold) : WF_vars(Round1Fail(k) \/ RSSRound1(k))
  /\ \A ind \in Servers : WF_vars(Round2Fail(ind) \/ RSSRound2(ind))
  /\ WF_vars(ClientRound2)
  /\ WF_vars(Finish)

\* ------------------------------------------------------------------------
\* Two calls interleaved on one RSSClient
\* ------------------------------------------------------------------------
\* the local variables of the call that runs
Locals ==
  [pc |-> pc, opts |-> opts, round1Reqs |-> round1Reqs, round1Resps |-> round1Resps, sums |-> sums,
   userShares |-> userShares, userFactorEncs |-> userFactorEncs, round2Reqs |-> round2Reqs,
   round2Resps |-> round2Resps, result |-> result]

\* the local variables of a call that has not begun
NotBegun ==
  [pc |-> "idle", opts |-> NoOpts, round1Reqs |-> <<>>, round1Resps |-> <<>>, sums |-> <<>>,
   userShares |-> <<>>, userFactorEncs |-> <<>>, round2Reqs |-> <<>>, round2Resps |-> <<>>,
   result |-> NoResult]

\* the Round 1 response list held in a field of the client: the call that goes on finds
\* the list of the call that ran before it
SwitchSharingResponses ==
  /\ \E other \in {IF suspended = <<>> THEN NotBegun ELSE suspended} :
       /\ suspended' = [Locals EXCEPT !.round1Resps = other.round1Resps]
       /\ pc' = other.pc
       /\ opts' = other.opts
       /\ round1Reqs' = other.round1Reqs
       /\ round1Resps' = round1Resps
       /\ sums' = other.sums
       /\ userShares' = other.userShares
       /\ userFactorEncs' = other.userFactorEncs
       /\ round2Reqs' = other.round2Reqs
       /\ round2Resps' = other.round2Resps
       /\ result' = other.result
  /\ UNCHANGED <<call, ret, env, client, shareDB, store, tssNonce, recovered, tampered>>

\* the call that runs is at an await (or has not begun, or has ended) and the event loop
\* goes on with the other call of the same client: every local variable belongs to its
\* call, the fields of the client and the state of the servers are shared
Switch ==
  /\ \E other \in {IF suspended = <<>> THEN NotBegun ELSE suspended} :
       /\ suspended' = Locals
       /\ pc' = other.pc
       /\ opts' = other.opts
       /\ round1Reqs' = other.round1Reqs
       /\ round1Resps' = other.round1Resps
       /\ sums' = other.sums
       /\ userShares' = other.userShares
       /\ userFactorEncs' = other.userFactorEncs
       /\ round2Reqs' = other.round2Reqs
       /\ round2Resps' = other.round2Resps
       /\ result' = other.result
  /\ UNCHANGED <<call, ret, env, client, shareDB, store, tssNonce, recovered, tampered>>

NextTwo ==
  \/ refresh(RefreshOptions(env, 2, <<3>>, FirstServers, 1))
  \/ import(ImportOptions(env, <<3>>, FirstServers, 1))
  \/ \E k \in 1..(2 * serverThreshold) : RSSRound1(k)
  \/ ClientRound2
  \/ \E ind \in Servers : RSSRound2(ind)
  \/ Finish
  \/ Switch

SpecTwo == Init /\ [][NextTwo]_vars

\* ------------------------------------------------------------------------
\* Calls with a selectedServers list of any length
\* ------------------------------------------------------------------------
\* neither refresh nor import compares selectedServers.length with serverThreshold:
\* the lists 1..len for len = T - 1, T, T + 1
NextSelected ==
  \/ pc = "idle" /\ \E ii \in {2, 3}, ti \in TamperTargetLists, len \in (serverThreshold - 1)..(serverThreshold + 1) :
        refresh(RefreshOptions(env, ii, ti, [k \in 1..len |-> k], Len(ti)))
  \/ pc = "idle" /\ \E ti \in TamperTargetLists, len \in (serverThreshold - 1)..(serverThreshold + 1) :
        import(ImportOptions(env, ti, [k \in 1..len |-> k], Len(ti)))
  \/ \E k \in 1..(2 * (serverThreshold + 1)) : RSSRound1(k)
  \/ ClientRound2
  \/ \E ind \in Servers : RSSRound2(ind)
  \/ Finish

SpecSelected == Init /\ [][NextSelected]_vars

\* ------------------------------------------------------------------------
\* The Round 1 handlers of the mock server called on any request body
\* ------------------------------------------------------------------------
\* the request bodies: the fields the handler checks take sound and unsound values;
\* OutOfRange are the selected lists of T indexes of which one is 0 or N + 1
Round1Bodies ==
  LET OutOfRange ==
        {[k \in 1..serverThreshold |-> IF k = 1 THEN x ELSE k] : x \in {0, NumServers + 1}}
          \cup {[k \in 1..serverThreshold |-> IF k = serverThreshold THEN NumServers + 1 ELSE k]}
  IN  {[round_name |-> rn, server_set |-> set, server_index |-> ind,
        old_servers_info |-> ServersInfo(sel), new_servers_info |-> ServersInfo(sel),
        old_user_share_index |-> oi, user_temp_pubkey |-> hexPoint(tempPubKey), target_index |-> ti,
        label |-> IF set = "old" THEN OldLabel ELSE NewLabel] :
         rn \in {"rss_round_1", "rss_round_2"}, set \in {"old", "new", "both"},
         ind \in 0..(NumServers + 1), sel \in SelectedServerLists \cup OutOfRange,
         oi \in {2, 1, NULL}, ti \in {<<3>>, <<3, 2>>, <<2, 4>>}}

InitHandler ==
  /\ Constructed
  /\ call \in [fn : {"RSSRound1Handler", "MockServer.RSSRound1Handler"}, body : Round1Bodies]
  /\ ret = NoRet

\* the exported function RSSRound1Handler, which MockServer.post calls
CallRSSRound1Handler ==
  /\ call.fn = "RSSRound1Handler"
  /\ ~ret.done
  /\ ret' = [done |-> TRUE,
             val |-> RSSRound1Handler(call.body, shareDB[call.body.server_index][call.body.label], env.seed)]
  /\ UNCHANGED <<call, protocol>>

\* the method RSSRound1Handler of the class MockServer
CallMockServerRSSRound1Handler ==
  /\ call.fn = "MockServer.RSSRound1Handler"
  /\ ~ret.done
  /\ ret' = [done |-> TRUE,
             val |-> MockServerRSSRound1Handler(call.body, shareDB[call.body.server_index][call.body.label],
                                                env.seed)]
  /\ UNCHANGED <<call, protocol>>

NextHandler ==
  \/ CallRSSRound1Handler
  \/ CallMockServerRSSRound1Handler

SpecHandler == InitHandler /\ [][NextHandler]_vars

\* ------------------------------------------------------------------------
\* Properties
\* ------------------------------------------------------------------------
\* every server answered its Round 2 request
AllRound2Answered ==
  /\ round2Resps # <<>>
  /\ \A ind \in 1..Len(round2Resps) : round2Resps[ind].status = "ok"

\* (dkg2Priv, tssShare) interpolated at {1, t} to 0
Interpolated(t, tssShare) ==
  bigIntUmod(getLagrangeCoeff(<<1, t>>, 1, 0, ecCurve_n) * env.dkg2Priv
             + getLagrangeCoeff(<<1, t>>, t, 0, ecCurve_n) * tssShare, ecCurve_n)

Ascending(q) == \A a, b \in 1..Len(q) : a < b => q[a] < q[b]

\* the call of the given kind ran against servers that all answered both rounds
HonestRun(op) ==
  /\ pc = "done"
  /\ opts.op = op
  /\ OptionsError(opts) = "ok"
  /\ AllRound2Answered

\* recover was applied to a returned RefreshResponse with the selectedServers of the call
RecoveredWithSameServers ==
  /\ recovered.status # "none"
  /\ recovered.selectedServers = opts.selectedServers

RoundTrip(op) ==
  HonestRun(op) =>
    /\ result.status = "ok"
    /\ RecoveredWithSameServers =>
         /\ recovered.status = "ok"
         /\ Interpolated(opts.targetIndexes[recovered.target], recovered.tssShare) = env.tssPrivKey

\* C1: refresh round trip. With honest servers refresh succeeds, and recover on each
\* returned RefreshResponse, with the matching factor key and the selectedServers of
\* the call, returns a share that interpolates with dkgNewPriv at {1, t} to tssPrivKey.
C1_RefreshRoundTrip == RoundTrip("refresh")

\* C2: import round trip. With honest servers import succeeds, and recover on each
\* returned RefreshResponse returns a share that interpolates with dkgNewPriv at
\* {1, t} to the imported key.
C2_ImportRoundTrip == RoundTrip("import")

\* the round trips for a selectedServers list given in ascending order
RoundTripAscending ==
  (pc = "done" /\ OptionsError(opts) = "ok" /\ AllRound2Answered /\ Ascending(opts.selectedServers)) =>
    /\ result.status = "ok"
    /\ RecoveredWithSameServers =>
         /\ recovered.status = "ok"
         /\ Interpolated(opts.targetIndexes[recovered.target], recovered.tssShare) = env.tssPrivKey

\* the call's options have matching lengths
LengthsMatch == opts.op # "none" /\ Len(opts.factorPubs) = Len(opts.targetIndexes)

\* the servers that returned a Round 2 response
Round2Answers == {ind \in 1..Len(round2Resps) : round2Resps[ind].status = "ok"}

\* C3: availability floor of Round 2. With all Round 1 responses valid the call reaches
\* Round 2; once every Round 2 request has settled, the call succeeds if at least T
\* servers returned a response (any number of failures up to N - T), and fails with
\* "not enough servers responded" if fewer than T did.
C3_AvailabilityFloor ==
  (pc = "done" /\ LengthsMatch) =>
    /\ Len(round2Resps) = NumServers
    /\ Cardinality(Round2Answers) >= serverThreshold => result.status = "ok"
    /\ Cardinality(Round2Answers) < serverThreshold => result.status = NotEnoughServers

\* exactly T servers answered Round 2, the other N - T requests failed, the call succeeded
C3_Witness ==
  /\ pc = "done"
  /\ Len(round2Resps) = NumServers
  /\ Cardinality(Round2Answers) = serverThreshold
  /\ result.status = "ok"

\* T - 1 servers answered Round 2 and the call failed with the availability error
C3_BelowFloor ==
  /\ pc = "done"
  /\ Len(round2Resps) = NumServers
  /\ Cardinality(Round2Answers) = serverThreshold - 1
  /\ result.status = NotEnoughServers

\* every server of the list recover was called with had answered Round 2
SelectedAnswered ==
  /\ recovered.status # "none"
  /\ \A k \in 1..Len(recovered.selectedServers) : recovered.selectedServers[k] \in Round2Answers

\* some Round 2 request failed and at least T servers answered
SomeFailedEnoughAnswered ==
  /\ LengthsMatch
  /\ Len(round2Resps) = NumServers
  /\ Cardinality(Round2Answers) < NumServers
  /\ Cardinality(Round2Answers) >= serverThreshold

\* the returned serverFactorEncs keep the servers' positions
PositionsKept ==
  \A i \in 1..Len(result.factorEncs) :
    LET encs == result.factorEncs[i].serverFactorEncs
    IN  /\ Len(encs) = NumServers
        /\ \A ind \in 1..NumServers :
             IF ind \in Round2Answers
             THEN encs[ind] = round2Resps[ind].data[i].encs[1]
             ELSE encs[ind] = NoEnc

\* C4: Round 2 is best-effort and keeps positions. When Round 2 requests fail while at
\* least T servers answer, the call succeeds, every serverFactorEncs has N entries with
\* the failed servers' entries null and every other entry the ciphertext of its server,
\* and recover with any T servers that answered returns the correct share.
C4_BestEffortPositions ==
  (pc = "done" /\ SomeFailedEnoughAnswered) =>
    /\ result.status = "ok"
    /\ PositionsKept
    /\ SelectedAnswered =>
         /\ recovered.status = "ok"
         /\ Interpolated(opts.targetIndexes[recovered.target], recovered.tssShare) = env.tssPrivKey

\* C4 for the lists of answering servers given in ascending order
BestEffortAscending ==
  (pc = "done" /\ SomeFailedEnoughAnswered) =>
    /\ result.status = "ok"
    /\ PositionsKept
    /\ (SelectedAnswered /\ Ascending(recovered.selectedServers)) =>
         /\ recovered.status = "ok"
         /\ Interpolated(opts.targetIndexes[recovered.target], recovered.tssShare) = env.tssPrivKey

\* C9: length contract. A call with factorPubs.length different from
\* targetIndexes.length fails with "inconsistent factorPubs and targetIndexes lengths"
\* before any Round 1 request is issued and before any polynomial is generated.
C9_LengthContract ==
  (opts.op # "none" /\ Len(opts.factorPubs) # Len(opts.targetIndexes)) =>
    /\ pc = "done"
    /\ result.status = LengthError
    /\ round1Reqs = <<>>
    /\ round1Resps = <<>>
    /\ round2Reqs = <<>>

\* a refresh with one factorPub for two targetIndexes was rejected
C9_Witness ==
  /\ opts.op = "refresh"
  /\ Len(opts.factorPubs) = 1
  /\ Len(opts.targetIndexes) = 2
  /\ result.status = LengthError

\* the value the recover formula gives for target position i and the list sel: each
\* share s_j is multiplied by the coefficient of its own index j
RecoverFormula(i, sel) ==
  LET r == result.factorEncs[i]
      u == decrypt(factorKey(i), r.userFactorEnc)
      s == [j \in 1..Len(r.serverFactorEncs) |-> decrypt(factorKey(i), r.serverFactorEncs[j])]
      terms == [k \in 1..Len(sel) |-> s[sel[k]] * getLagrangeCoeff(sel, sel[k], 0, ecCurve_n)]
      serverRecon == SumMod(terms, 1, 0)
  IN  bigIntUmod(u * getLagrangeCoeff(<<1, UserShareIndex>>, UserShareIndex, 0, ecCurve_n)
                 + serverRecon * getLagrangeCoeff(<<1, UserShareIndex>>, 1, 0, ecCurve_n), ecCurve_n)

\* C10: recover returns u*L([1,99],99,0) + (sum over j in selectedServers of
\* s_j*L(selectedServers,j,0))*L([1,99],1,0) mod n for every list of T distinct server
\* indices, in whatever order the list is given.
C10_RecoverFormula ==
  SelectedAnswered =>
    /\ recovered.status = "ok"
    /\ recovered.tssShare = RecoverFormula(recovered.target, recovered.selectedServers)

\* C10 for the lists given in ascending order
RecoverFormulaAscending ==
  (SelectedAnswered /\ Ascending(recovered.selectedServers)) =>
    /\ recovered.status = "ok"
    /\ recovered.tssShare = RecoverFormula(recovered.target, recovered.selectedServers)

\* the client has gone past the await of the Round 1 promises
ClientDecided == pc \in {"round2", "done"} /\ LengthsMatch

CommitConsistencyErrors == {TSSPubKeyMismatch, ServerMasterCommitMismatch}

\* C5: commit binding. If one commitment point, at any position of master_poly_commits
\* or of server_poly_commits, for any target index, in any one server's Round 1
\* response is replaced by a different point, the call fails with a CommitConsistency
\* error raised by the client's own checks.
C5_CommitBinding ==
  (tampered.kind = "commit" /\ ClientDecided) =>
    /\ pc = "done"
    /\ result.status \in CommitConsistencyErrors

\* C5 as amended: a replaced point of master_poly_commits or at position 0 of
\* server_poly_commits fails the client's checks with a CommitConsistency error and no
\* Round 2 request is issued; a replaced point at a position k >= 1 of
\* server_poly_commits passes the client's checks, every server rejects its Round 2
\* request, and the call fails with "not enough servers responded".
C5_CommitBindingAmended ==
  (tampered.kind = "commit" /\ ClientDecided) =>
    IF tampered.field = "master" \/ tampered.idx = 1
    THEN /\ pc = "done"
         /\ result.status \in CommitConsistencyErrors
         /\ round2Reqs = <<>>
    ELSE /\ Len(round2Reqs) = NumServers
         /\ Round2Answers = {}
         /\ pc = "done" => result.status = NotEnoughServers

\* the constant term of one server_poly_commits was replaced and the client threw the
\* server/master mismatch
C5_Witness ==
  /\ tampered.kind = "commit"
  /\ tampered.field = "server"
  /\ tampered.idx = 1
  /\ pc = "done"
  /\ result.status = ServerMasterCommitMismatch

\* a higher coefficient of one server_poly_commits was replaced and the call ended
\* with the availability error
C5_HigherCoefficient ==
  /\ tampered.kind = "commit"
  /\ tampered.field = "server"
  /\ tampered.idx > 1
  /\ pc = "done"
  /\ result.status = NotEnoughServers

\* the altered user_enc, what it opens to, and what the original opened to
AlteredUserEnc == round1Resps[tampered.k].data[tampered.i].user_enc
AlteredDec == decrypt(tempPrivKey, AlteredUserEnc)
OriginalDec == decrypt(tempPrivKey, tampered.original)

\* the user share of target position i had the user_enc not been altered
UnalteredUserShare(i) ==
  SumMod([j \in 1..Len(round1Resps) |->
            IF j = tampered.k /\ i = tampered.i THEN OriginalDec
            ELSE decrypt(tempPrivKey, round1Resps[j].data[i].user_enc)], 1, 0)

\* C6: share binding. If the user_enc of any one Round 1 response, for any target
\* index, is altered, the call fails with a Decrypt error or with "decrypted user
\* shares inconsistent with poly commits".
C6_ShareBinding ==
  (tampered.kind = "user_enc" /\ ClientDecided) =>
    /\ pc = "done"
    /\ result.status \in {DecryptFailed, UserShareMismatch}

\* C6 as amended: an altered user_enc that does not open fails the call with a Decrypt
\* error; one that opens to a value not congruent mod n to the original plaintext fails
\* it with the ShareConsistency error; one that opens to a congruent value is accepted,
\* and the user share the call goes on with is the one of the unaltered responses.
C6_ShareBindingAmended ==
  (tampered.kind = "user_enc" /\ ClientDecided) =>
    IF AlteredDec = DecryptError
    THEN pc = "done" /\ result.status = DecryptFailed /\ round2Reqs = <<>>
    ELSE IF AlteredDec % ecCurve_n # OriginalDec % ecCurve_n
    THEN pc = "done" /\ result.status = UserShareMismatch /\ round2Reqs = <<>>
    ELSE /\ result.status \notin {DecryptFailed, UserShareMismatch}
         /\ \A i \in 1..Len(opts.targetIndexes) :
              /\ userShares[i] = UnalteredUserShare(i)
              /\ userFactorEncs[i] = encrypt(opts.factorPubs[i], UnalteredUserShare(i))

\* a user_enc was replaced by the encryption of another share and the client threw
\* the ShareConsistency error
C6_Witness ==
  /\ tampered.kind = "user_enc"
  /\ AlteredDec # DecryptError
  /\ AlteredDec % ecCurve_n # OriginalDec % ecCurve_n
  /\ pc = "done"
  /\ result.status = UserShareMismatch

\* a user_enc was replaced by the encryption of a congruent plaintext and the call
\* succeeded
C6_CongruentAccepted ==
  /\ tampered.kind = "user_enc"
  /\ AlteredDec # DecryptError
  /\ AlteredDec # OriginalDec
  /\ pc = "done"
  /\ result.status = "ok"

\* C7: whenever the call returns successfully, for every target t the aggregated
\* commitments mc, sc sent in Round 2 satisfy L([1,t],1,0)*dkgNewPub + L([1,t],t,0)*mc[0]
\* = tssPubKey, mc[0] + mc[1] = sc[0] and G*userShare = mc[0] + 99*mc[1], where userShare
\* is the sum mod n of the decryptions of every co-dealer's user_enc and is the plaintext
\* of the returned userFactorEnc.
C7_SuccessIdentities ==
  (pc = "done" /\ result.status = "ok") =>
    \A i \in 1..Len(opts.targetIndexes), ind \in 1..Len(round2Reqs) :
      LET t == opts.targetIndexes[i]
          d == round2Reqs[ind].data[i]
          mc == [k \in 1..Len(d.master_commits) |-> ecPoint(ecCurve, d.master_commits[k])]
          sc == [k \in 1..Len(d.server_commits) |-> ecPoint(ecCurve, d.server_commits[k])]
          userShare == SumMod([j \in 1..Len(round1Resps) |->
                                 decrypt(tempPrivKey, round1Resps[j].data[i].user_enc)], 1, 0)
      IN  /\ PointAdd(PointMul(ecPoint(ecCurve, opts.dkgNewPub), getLagrangeCoeff(<<1, t>>, 1, 0, ecCurve_n)),
                      PointMul(mc[1], getLagrangeCoeff(<<1, t>>, t, 0, ecCurve_n)))
               = PointMul(G, env.tssPrivKey)
          /\ PointAdd(mc[1], mc[2]) = sc[1]
          /\ PointMul(G, userShare) = PointAdd(mc[1], PointMul(mc[2], UserShareIndex))
          /\ decrypt(factorKey(i), result.factorEncs[i].userFactorEnc) = userShare

\* a call for two targets returned successfully
C7_Witness ==
  /\ pc = "done"
  /\ result.status = "ok"
  /\ Len(opts.targetIndexes) = 2
  /\ Len(result.factorEncs) = 2

\* every Round 1 promise has settled and every check of the client passes on the
\* responses, for every target index
Round1ChecksPass ==
  /\ \A k \in 1..Len(round1Resps) : round1Resps[k].status = "ok"
  /\ \A i \in 1..Len(opts.targetIndexes) :
       /\ CommitShapeLoop(round1Resps, i, 1) = "ok"
       /\ \A s \in {SumCommits(round1Resps, i)} :
            LET sm == [x \in 1..Len(opts.targetIndexes) |-> s]
            IN  /\ CommitChecks(opts, sm, i, tssPubKeyOf(env)) = "ok"
                /\ UserShareChecks(round1Resps, sm, i) = "ok"

Round1CheckErrors ==
  {MasterShapeError, ServerShapeError, TSSPubKeyMismatch, ServerMasterCommitMismatch,
   UserShareMismatch, DecryptFailed}

\* C8: ordering of rounds. No /rss_round_2 request is issued before every Round 1
\* response has been received and the commit-shape, TSS-public-key, server/master-commit
\* and user-share checks have passed for every target index; if any of these checks
\* fails, the call never issues a Round 2 request.
C8_RoundOrdering ==
  (round2Reqs # <<>> \/ ClientDecided) =>
    \A pass \in {Round1ChecksPass} :
      /\ round2Reqs # <<>> =>
           /\ Len(round1Resps) = Len(round1Reqs) + 1
           /\ pass
      /\ (ClientDecided /\ ~pass) =>
           /\ round2Reqs = <<>>
           /\ round2Resps = <<>>
           /\ result.status \in Round1CheckErrors

\* the Round 2 requests of a refresh are out, after 2T + 1 Round 1 responses
C8_Witness ==
  /\ pc = "round2"
  /\ opts.op = "refresh"
  /\ Len(round2Reqs) = NumServers
  /\ Len(round1Resps) = 2 * serverThreshold + 1

\* a check failed on altered responses and the call ended without a Round 2 request
C8_FailedChecks ==
  /\ pc = "done"
  /\ tampered.kind # "none"
  /\ ~Round1ChecksPass
  /\ round2Reqs = <<>>

\* ------------------------------------------------------------------------
\* recover on sparse and on undecryptable input
\* ------------------------------------------------------------------------
\* the serverEncs handed to the recover call that took place
RecoveredServerEncs == recovered.serverEncs

NullSlots(serverEncs) == {j \in 1..Len(serverEncs) : serverEncs[j] = NoEnc}

SelectedSet(selectedServers) == {selectedServers[k] : k \in 1..Len(selectedServers)}

\* C11: recover silently skips null slots of serverEncs. A null entry of serverEncs,
\* whether or not its index is listed in selectedServers, never makes recover fail
\* with an error.
C11_NullSlotsSkipped ==
  (recovered.status # "none" /\ NullSlots(RecoveredServerEncs) # {}) =>
     recovered.status = "ok"

\* the half that holds: null slots outside selectedServers do not make recover fail
C11_UnselectedNullSkipped ==
  (/\ recovered.status # "none"
   /\ NullSlots(RecoveredServerEncs) # {}
   /\ NullSlots(RecoveredServerEncs) \cap SelectedSet(recovered.selectedServers) = {}) =>
     recovered.status = "ok"

\* recover was called with a null slot at a selected index and threw the TypeError
C11_SelectedNullThrows ==
  /\ recovered.status = "error"
  /\ recovered.tssShare = TypeError
  /\ NullSlots(RecoveredServerEncs) \cap SelectedSet(recovered.selectedServers) # {}

\* the caller recovers from a RefreshResponse in which one ciphertext, the userEnc
\* (slot 0) or the serverEncs entry of server j, was replaced on the way
RecoverAltered ==
  /\ pc = "done"
  /\ result.status = "ok"
  /\ recovered = NoRecover
  /\ tampered = NoTamper
  /\ \E i \in 1..Len(result.factorEncs), sel \in SelectedServerLists, j \in 0..NumServers :
       LET r == result.factorEncs[i]
           original == IF j = 0 THEN r.userFactorEnc ELSE r.serverFactorEncs[j]
       IN  \E e \in AlteredEncs(original) :
             \E serverEncs \in {IF j = 0 THEN r.serverFactorEncs
                                ELSE [r.serverFactorEncs EXCEPT ![j] = e]} :
               \E share \in {recover(factorKey(i), serverEncs, IF j = 0 THEN e ELSE r.userFactorEnc, sel,
                                      env.keyType)} :
                 /\ recovered' = [status |-> IF share < 0 THEN "error" ELSE "ok",
                                  target |-> i, selectedServers |-> sel,
                                  serverEncs |-> serverEncs,
                                  userEnc |-> IF j = 0 THEN e ELSE r.userFactorEnc,
                                  tssShare |-> share]
                 /\ tampered' = [kind |-> "recover", k |-> 0, i |-> i,
                                 field |-> IF j = 0 THEN "userEnc" ELSE "serverEncs",
                                 idx |-> j, original |-> original]
  /\ UNCHANGED <<call, ret, client, store, tssNonce, suspended>>
  /\ UNCHANGED <<env, shareDB, pc, opts, round1Reqs, round1Resps, sums, userShares, userFactorEncs,
                 round2Reqs, round2Resps, result>>

\* Specification: one call against honest servers, then recover on altered input
NextRecover ==
  \/ pc = "idle" /\ \E ii \in {2, 3}, ti \in TamperTargetLists :
        refresh(RefreshOptions(env, ii, ti, FirstServers, Len(ti)))
  \/ \E ti \in TamperTargetLists : import(ImportOptions(env, ti, FirstServers, Len(ti)))
  \/ \E k \in 1..(2 * serverThreshold) : RSSRound1(k)
  \/ ClientRound2
  \/ \E ind \in Servers : RSSRound2(ind)
  \/ Finish
  \/ RecoverAltered

SpecRecover == Init /\ [][NextRecover]_vars

\* the slots of the recover call that took place which factorKey cannot decrypt
Undecryptable(serverEncs) ==
  {j \in 1..Len(serverEncs) :
     serverEncs[j] # NoEnc /\ decrypt(factorKey(recovered.target), serverEncs[j]) = DecryptError}

UserEncDecrypts == decrypt(factorKey(recovered.target), recovered.userEnc) # DecryptError

\* C12: in recover, a decryption failure on an individual server ciphertext is
\* tolerated by skipping that slot: recover does not fail because one entry of
\* serverEncs (selected or not) cannot be decrypted with factorKey, whereas a
\* decryption failure on userEnc fails the call.
C12_ServerDecryptTolerated ==
  recovered.status # "none" =>
    /\ (UserEncDecrypts /\ Cardinality(Undecryptable(recovered.serverEncs)) = 1) =>
          recovered.tssShare # DecryptError
    /\ ~UserEncDecrypts => recovered.tssShare = DecryptError

\* the half that holds: an undecryptable userEnc fails the call
C12_UserDecryptFails ==
  (recovered.status # "none" /\ ~UserEncDecrypts) =>
     (recovered.status = "error" /\ recovered.tssShare = DecryptError)

\* recover failed on one undecryptable entry of serverEncs that is not selected
C12_UnselectedFails ==
  /\ recovered.status = "error"
  /\ recovered.tssShare = DecryptError
  /\ UserEncDecrypts
  /\ Cardinality(Undecryptable(recovered.serverEncs)) = 1
  /\ Undecryptable(recovered.serverEncs) \cap SelectedSet(recovered.selectedServers) = {}

\* recover was called with an undecryptable userEnc and failed
C12_UserDecryptFailed ==
  /\ recovered.status = "error"
  /\ ~UserEncDecrypts

\* ------------------------------------------------------------------------
\* Specification: direct calls of the exported functions of utils
\* ------------------------------------------------------------------------
KitMaxLen == 3
MaxModulus == 16         \* the largest modulus modularInverse is called with

\* the indices of the protocol: 0 and 1 of the master polynomial, server indices,
\* target indices, the user share index
IndexValues == {0, 1, 2, 3, UserShareIndex}
KitTargets == {0, 1, 2, 5, UserShareIndex}

RECURSIVE SeqsUpTo(_, _)
SeqsUpTo(S, len) ==
  IF len = 0 THEN {<<>>}
  ELSE LET shorter == SeqsUpTo(S, len - 1)
       IN  shorter \cup {Append(q, x) : q \in {r \in shorter : Len(r) = len - 1}, x \in S}

IndexLists == SeqsUpTo(IndexValues, KitMaxLen) \ {<<>>}

LagrangeCalls ==
  [fn : {"getLagrangeCoeff"}, allIndexes : IndexLists, myIndex : IndexValues, target : KitTargets]

\* the PointHex values of the points of the curve, and the encoding of the identity
PointHexes ==
  {[x |-> CoordBase(ecCurve) + a, y |-> b] : a \in 1..((ecCurve_n - 1) \div 2), b \in {0, 1}}
    \cup {[x |-> NULL, y |-> NULL]}

HexPointCalls == [fn : {"hexPoint"}, p : Points]
EcPointCalls == [fn : {"ecPoint"}, p : PointHexes]

\* the values of opts.keyType: the two key types, another curve name, and
\* "undefined" for an absent keyType
KeyTypeInputs == KeyTypes \cup {"p256", "undefined"}

ConstructorCalls == [fn : {"RSSClient"}, opts : {RSSClientOptions(env, kt) : kt \in KeyTypeInputs}]

\* ciphertexts for the first factor key, and the same with a broken MAC
KitUserEncs ==
  {[encrypt(factorPubsOf(1)[1], 1) EXCEPT !.mac = m] : m \in BOOLEAN}
KitServerEncs ==
  {[j \in Servers |-> [encrypt(factorPubsOf(1)[1], j) EXCEPT !.mac = (m \/ j # 1)]] : m \in BOOLEAN}

\* selectedServers lists that do not select one serverEncs slot per entry: one
\* index repeated, and an index beyond the last slot
UnmatchedServerLists ==
  {[k \in 1..serverThreshold |-> 1],
   [k \in 1..serverThreshold |-> IF k = serverThreshold THEN NumServers + 1 ELSE k]}

RecoverCalls ==
  [fn : {"recover"}, keyType : KeyTypeInputs, factorKey : {factorKey(1)},
   userEnc : KitUserEncs, serverEncs : KitServerEncs,
   selectedServers : SelectedServerLists \cup UnmatchedServerLists]

\* the calls of the client's contribution: both implementations, the old share
\* indexes and target indexes of the protocol, every input share
ClientRound1Calls ==
  [fn : {"refreshClientRound1", "refreshClientRound1Internal"}, inputIndex : {2, 3},
   targetIndexes : TargetIndexLists, inputShare : Plaintexts]

\* the calls of getShare: both implementations, coefficient lists of up to KitMaxLen
\* coefficients that are negative, reduced and not reduced, indexes of either sign
ShareCalls ==
  [fn : {"getShare", "getShareBigInt"},
   polynomial : SeqsUpTo({-1, 0, 5, ecCurve_n, ecCurve_n + 2}, KitMaxLen),
   index : {-2, 0, 1, 3, UserShareIndex}]

\* the calls of dotProduct: both implementations, arrays of up to KitMaxLen values
\* below and above the curve order, with the modulus given and omitted
DotCalls ==
  [fn : {"dotProduct", "dotProductBigInt"},
   arr1 : SeqsUpTo({2, ecCurve_n + 1}, KitMaxLen),
   arr2 : SeqsUpTo({2, ecCurve_n + 1}, KitMaxLen),
   modulus : {NULL, ecCurve_n}]

\* the calls of modularInverse: every modulus from 2 to MaxModulus, prime and
\* composite, and every a in [0, m)
InverseCalls ==
  {[fn |-> "modularInverse", a |-> a, m |-> m] : a \in 0..(MaxModulus - 1), m \in 2..MaxModulus}

KitCalls ==
  LagrangeCalls \cup HexPointCalls \cup EcPointCalls \cup ConstructorCalls \cup RecoverCalls
    \cup ClientRound1Calls \cup ShareCalls \cup DotCalls
    \cup {c \in InverseCalls : c.a < c.m}

InitKit ==
  /\ Constructed
  /\ call \in KitCalls
  /\ ret = NoRet

CallGetLagrangeCoeff ==
  /\ call.fn = "getLagrangeCoeff"
  /\ ~ret.done
  /\ ret' = [done |-> TRUE,
             val |-> getLagrangeCoeff(call.allIndexes, call.myIndex, call.target, ecCurve_n)]
  /\ UNCHANGED <<call, protocol>>

CallHexPoint ==
  /\ call.fn = "hexPoint"
  /\ ~ret.done
  /\ ret' = [done |-> TRUE, val |-> hexPoint(call.p)]
  /\ UNCHANGED <<call, protocol>>

CallEcPoint ==
  /\ call.fn = "ecPoint"
  /\ ~ret.done
  /\ ret' = [done |-> TRUE, val |-> ecPoint(ecCurve, call.p)]
  /\ UNCHANGED <<call, protocol>>

CallRSSClient ==
  /\ call.fn = "RSSClient"
  /\ ~ret.done
  /\ ret' = [done |-> TRUE, val |-> RSSClient(call.opts)]
  /\ UNCHANGED <<call, protocol>>

CallRecover ==
  /\ call.fn = "recover"
  /\ ~ret.done
  /\ ret' = [done |-> TRUE,
             val |-> recover(call.factorKey, call.serverEncs, call.userEnc, call.selectedServers,
                             call.keyType)]
  /\ UNCHANGED <<call, protocol>>

\* refreshClientRound1 returns _data; _masterPolys and _serverPolys are its locals
CallRefreshClientRound1 ==
  /\ call.fn = "refreshClientRound1"
  /\ ~ret.done
  /\ ret' = [done |-> TRUE,
             val |-> refreshClientRound1(call.inputIndex, call.targetIndexes, call.inputShare, env.seed),
             masterPolys |->
               [i \in 1..Len(call.targetIndexes) |->
                  DealerPolys(refreshLagrangeCoeffs(call.inputIndex, call.targetIndexes)[i],
                              call.inputShare, serverThreshold, env.seed, 0, i).m],
             serverPolys |->
               [i \in 1..Len(call.targetIndexes) |->
                  DealerPolys(refreshLagrangeCoeffs(call.inputIndex, call.targetIndexes)[i],
                              call.inputShare, serverThreshold, env.seed, 0, i).s]]
  /\ UNCHANGED <<call, protocol>>

CallRefreshClientRound1Internal ==
  /\ call.fn = "refreshClientRound1Internal"
  /\ ~ret.done
  /\ ret' = [done |-> TRUE,
             val |-> refreshClientRound1Internal(call.inputIndex, call.targetIndexes, call.inputShare,
                                                 env.seed),
             masterPolys |->
               [i \in 1..Len(call.targetIndexes) |->
                  DealerPolys(refreshLagrangeCoeffsInternal(call.inputIndex, call.targetIndexes)[i],
                              call.inputShare, serverThreshold, env.seed, 0, i).m],
             serverPolys |->
               [i \in 1..Len(call.targetIndexes) |->
                  DealerPolys(refreshLagrangeCoeffsInternal(call.inputIndex, call.targetIndexes)[i],
                              call.inputShare, serverThreshold, env.seed, 0, i).s]]
  /\ UNCHANGED <<call, protocol>>

\* getShare of utils (BN): acc is the local res after the loop
CallGetShare ==
  /\ call.fn = "getShare"
  /\ ~ret.done
  /\ ret' = [done |-> TRUE,
             val |-> getShare(call.polynomial, call.index, ecCurve_n),
             acc |-> ShareLoop(call.polynomial, call.index, ecCurve_n, 1, 0)]
  /\ UNCHANGED <<call, protocol>>

\* getShare of helpers (bigint)
CallGetShareBigInt ==
  /\ call.fn = "getShareBigInt"
  /\ ~ret.done
  /\ ret' = [done |-> TRUE,
             val |-> getShareBigInt(call.polynomial, call.index, ecCurve_n),
             acc |-> BigIntShareLoop(call.polynomial, call.index, ecCurve_n, 1, 0)]
  /\ UNCHANGED <<call, protocol>>

CallDotProduct ==
  /\ call.fn = "dotProduct"
  /\ ~ret.done
  /\ ret' = [done |-> TRUE, val |-> dotProductMod(call.arr1, call.arr2, call.modulus)]
  /\ UNCHANGED <<call, protocol>>

CallDotProductBigInt ==
  /\ call.fn = "dotProductBigInt"
  /\ ~ret.done
  /\ ret' = [done |-> TRUE, val |-> dotProductBigInt(call.arr1, call.arr2, call.modulus)]
  /\ UNCHANGED <<call, protocol>>

\* steps counts the passes of the while loop
CallModularInverse ==
  /\ call.fn = "modularInverse"
  /\ ~ret.done
  /\ ret' = [done |-> TRUE, val |-> modularInverse(call.a, call.m),
             steps |-> InverseSteps(call.a, call.m)]
  /\ UNCHANGED <<call, protocol>>

NextKit ==
  \/ CallGetShare
  \/ CallGetShareBigInt
  \/ CallDotProduct
  \/ CallDotProductBigInt
  \/ CallModularInverse
  \/ CallGetLagrangeCoeff
  \/ CallHexPoint
  \/ CallEcPoint
  \/ CallRSSClient
  \/ CallRecover
  \/ CallRefreshClientRound1
  \/ CallRefreshClientRound1Internal

SpecKit == InitKit /\ [][NextKit]_vars

\* the positions of allIndexes that hold the value myIndex
PositionsOf(allIndexes, myIndex) == {j \in 1..Len(allIndexes) : allIndexes[j] = myIndex}

LagrangeReturned == call.fn = "getLagrangeCoeff" /\ ret.done

\* C13: getLagrangeCoeff(indices, myIndex, target, n) fails with a ZeroDenominator
\* error whenever indices contains the value myIndex at a position other than
\* myIndex's own position (a duplicated index); in that case it never returns a
\* coefficient.
C13_ZeroDenominator ==
  (LagrangeReturned /\ Cardinality(PositionsOf(call.allIndexes, call.myIndex)) > 1) =>
     ret.val = InverseError

\* what the code does with a duplicated myIndex: every copy is skipped and a
\* coefficient is returned
C13_DuplicateReturnsCoeff ==
  /\ LagrangeReturned
  /\ call.allIndexes = <<1, 1>>
  /\ call.myIndex = 1
  /\ ret.val = 1

\* the coefficients of the polynomials the interpolation is checked on: P ranges
\* over the polynomials of degree < k with coefficients among these
PolyCoeffs == {0, 1, ecCurve_n - 1}

Polys(k) == {q \in SeqsUpTo(PolyCoeffs, k) : Len(q) = k}

DistinctModN(allIndexes, modulus) ==
  \A a, b \in 1..Len(allIndexes) : a # b => allIndexes[a] % modulus # allIndexes[b] % modulus

\* sum over the positions other than `my` of getLagrangeCoeff(indices, x_i, target, n) * P(x_i)
RECURSIVE OtherTerms(_, _, _, _, _, _)
OtherTerms(allIndexes, my, target, poly, modulus, i) ==
  IF i > Len(allIndexes) THEN 0
  ELSE (IF i = my THEN 0
        ELSE getLagrangeCoeff(allIndexes, allIndexes[i], target, modulus)
               * getShare(poly, allIndexes[i], modulus))
       + OtherTerms(allIndexes, my, target, poly, modulus, i + 1)

\* the call is in the case of the interpolation: distinct indices, myIndex one of them
InterpolationCall ==
  /\ LagrangeReturned
  /\ DistinctModN(call.allIndexes, ecCurve_n)
  /\ PositionsOf(call.allIndexes, call.myIndex) # {}

\* C14: Lagrange coefficients interpolate. For distinct indices x_1..x_k in Z_n and
\* every polynomial P of degree < k over Z_n, the sum over i of
\* getLagrangeCoeff(indices, x_i, target, n) * P(x_i) equals P(target) mod n, for
\* target = 0 and for nonzero targets (also when target - x_j is negative); each
\* returned coefficient lies in [0, n).
C14_LagrangeInterpolates ==
  InterpolationCall =>
    /\ ret.val \in 0..(ecCurve_n - 1)
    /\ \A my \in PositionsOf(call.allIndexes, call.myIndex) :
         \A poly \in Polys(Len(call.allIndexes)) :
           (ret.val * getShare(poly, call.myIndex, ecCurve_n)
              + OtherTerms(call.allIndexes, my, call.target, poly, ecCurve_n, 1)) % ecCurve_n
           = getShare(poly, call.target, ecCurve_n)

\* a coefficient for a nonzero target below some index was returned: target - x_j < 0
C14_Witness ==
  /\ InterpolationCall
  /\ Len(call.allIndexes) = KitMaxLen
  /\ call.target # 0
  /\ \E j \in 1..Len(call.allIndexes) : call.target - call.allIndexes[j] < 0
  /\ ret.val \notin {0, 1}

IdentityHex == [x |-> NULL, y |-> NULL]

ClientResponse ==
  [status |-> "ok", target_index |-> opts.targetIndexes,
   data |-> IF opts.op = "refresh"
            THEN refreshClientRound1(opts.inputIndex, opts.targetIndexes, opts.inputShare, env.seed)
            ELSE importClientRound1(opts.targetIndexes, opts.inputShare, env.seed)]

\* the server_encs column sent to server ind for target position i
Column(ind, i) == round2Reqs[ind].data[i].server_encs

\* the Round 2 requests have just been sent: they and the Round 1 responses stay as
\* they are until the call ends
Round2Sent == pc = "round2" /\ round2Reqs # <<>>

\* the number of server responses of Round 1: 2T for refresh, T for import
ServerResponses == IF opts.op = "refresh" THEN 2 * serverThreshold ELSE serverThreshold

\* C19: the client's own synthetic Round 1 response is prepended to the list of
\* server responses: it is element 0 of the Round 1 response list, so in every
\* server_encs column sent in Round 2 the client's ciphertext is at position 0, ahead
\* of the ciphertexts of the 2T (refresh) or T (import) server responses.
C19_ClientResponseFirst ==
  Round2Sent =>
    \A cr \in {ClientResponse} :
      /\ round1Resps[1] = cr
      /\ \A ind \in 1..Len(round2Reqs), i \in 1..Len(opts.targetIndexes) :
           /\ Len(Column(ind, i)) = ServerResponses + 1
           /\ Column(ind, i)[1] = cr.data[i].server_encs[ind]

\* C19 as the code has it: the client's own synthetic Round 1 response is appended
\* to the list of server responses: it is the last element of the Round 1 response
\* list (index 2T for refresh, T for import), so in every server_encs column sent in
\* Round 2 the ciphertexts of the server responses come first, in request order, and
\* the client's ciphertext is at the last position.
C19_ClientResponseLast ==
  /\ pc \in {"round1", "round2", "done"} /\ round1Resps # <<>> =>
       Len(round1Resps) = ServerResponses + 1
  /\ pc = "round1" => round1Resps[ServerResponses + 1] = ClientResponse
  /\ Round2Sent =>
       \A cr \in {ClientResponse} :
         /\ round1Resps[ServerResponses + 1] = cr
         /\ \A ind \in 1..Len(round2Reqs), i \in 1..Len(opts.targetIndexes) :
              /\ Len(Column(ind, i)) = ServerResponses + 1
              /\ Column(ind, i)[ServerResponses + 1] = cr.data[i].server_encs[ind]
              /\ \A k \in 1..ServerResponses :
                   Column(ind, i)[k] = round1Resps[k].data[i].server_encs[ind]

\* the Round 2 requests of a refresh are out and the first ciphertext of a column is
\* a server's, not the client's
C19_Witness ==
  /\ pc = "round2"
  /\ opts.op = "refresh"
  /\ Len(round2Reqs) = NumServers
  /\ Column(1, 1)[1] # ClientResponse.data[1].server_encs[1]
  /\ Column(1, 1)[2 * serverThreshold + 1] = ClientResponse.data[1].server_encs[1]

\* ------------------------------------------------------------------------
\* The y-intercept of a server's master polynomial
\* ------------------------------------------------------------------------
\* the Round 1 responses of servers that have arrived
ServerAnswers == {k \in 1..Len(round1Reqs) : round1Resps[k].status = "ok"}

\* the point a server committed to as the y-intercept of its master polynomial
YInterceptCommit(k, i) == ecPoint(ecCurve, round1Resps[k].data[i].master_poly_commits[1])

\* Lagrange(selected, server_index, 0) * tssServerShare(label) of the request b
ServerBase(b) ==
  getLagrangeCoeff(ServersInfoOf(b).selected, b.server_index, 0, ecCurve_n)
    * shareDB[b.server_index][b.label]

OldFactor(b) == getLagrangeCoeff(<<1, b.old_user_share_index>>, 1, 0, ecCurve_n)

\* C20: server Round 1 coefficient. For server_set "old" the y-intercept of the
\* server's master polynomial for target t is Lagrange(selected, server_index, 0) *
\* Lagrange([1, old_user_share_index], 1, 0) * Lagrange([0, 1], 0, t) *
\* tssServerShare(label) mod n, and for server_set "new" it is the same product with
\* the middle factor omitted: Lagrange(selected, server_index, 0) *
\* Lagrange([0, 1], 0, t) * tssServerShare(label) mod n.
C20_ServerCoefficient ==
  pc = "round1" =>
    \A k \in ServerAnswers, i \in 1..Len(opts.targetIndexes) :
      LET b == round1Reqs[k]
          l0 == getLagrangeCoeff(<<0, 1>>, 0, b.target_index[i], ecCurve_n)
      IN  YInterceptCommit(k, i) =
            PointMul(G, IF b.server_set = "old"
                        THEN ServerBase(b) * OldFactor(b) * l0
                        ELSE ServerBase(b) * l0)

\* C20 as the code has it: for server_set "old" the y-intercept is Lagrange(selected,
\* server_index, 0) * Lagrange([1, old_user_share_index], 1, 0) * Lagrange([0, 1], 0, t)
\* * tssServerShare(label) mod n, and for server_set "new" it is Lagrange(selected,
\* server_index, 0) * Lagrange([0, 1], 1, t) * tssServerShare(label) mod n: the middle
\* factor is omitted and the last coefficient is that of index 1, not of index 0.
C20_ServerCoefficientAmended ==
  pc = "round1" =>
    \A k \in ServerAnswers, i \in 1..Len(opts.targetIndexes) :
      LET b == round1Reqs[k]
          l0 == getLagrangeCoeff(<<0, 1>>, 0, b.target_index[i], ecCurve_n)
          l1 == getLagrangeCoeff(<<0, 1>>, 1, b.target_index[i], ecCurve_n)
      IN  YInterceptCommit(k, i) =
            PointMul(G, IF b.server_set = "old"
                        THEN ServerBase(b) * OldFactor(b) * l0
                        ELSE ServerBase(b) * l1)

\* a server of each set of a refresh has answered with a commitment to a nonzero
\* y-intercept
C20_Witness ==
  /\ pc = "round1"
  /\ opts.op = "refresh"
  /\ \E k \in ServerAnswers : round1Reqs[k].server_set = "old" /\ YInterceptCommit(k, 1) # Infinity
  /\ \E k \in ServerAnswers : round1Reqs[k].server_set = "new" /\ YInterceptCommit(k, 1) # Infinity

\* ------------------------------------------------------------------------
\* The state that outlives a call
\* ------------------------------------------------------------------------
\* C15: refresh and import leave all persistent state unchanged. After any sequence
\* of refresh/import calls, successful or failed, the RSSClient fields (tssPubKey,
\* tempPrivKey, tempPubKey, serverEndpoints, serverThreshold, serverPubKeys, keyType)
\* have their constructor values, and the mock servers' shareDB, private key store
\* and nonce table are unchanged by the /rss_round_1 and /rss_round_2 handlers.
C15_PersistentState ==
  /\ client = RSSClient(RSSClientOptions(env, env.keyType))
  /\ shareDB = HarnessShareDB(env)
  /\ store = HarnessStore
  /\ tssNonce = HarnessNonces

\* a call went through both rounds and ended
C15_Witness ==
  /\ pc = "done"
  /\ result.status \in {"ok", NotEnoughServers}
  /\ \E ind \in 1..Len(round2Resps) : round2Resps[ind].status = "ok"

\* ------------------------------------------------------------------------
\* The curve of the ECIES layer and the curve of the TSS key
\* ------------------------------------------------------------------------
\* the encodings of the points of each curve
CurveHexes ==
  [curve \in KeyTypes |-> {hexPoint(Point(curve, k)) : k \in 0..(CurveOrder(curve) - 1)}]

\* h holds the coordinates of a point of the curve
OnCurve(curve, h) == h \in CurveHexes[curve]

\* h is a public key of secp256k1
Secp256k1Key(h) == h # IdentityHex /\ OnCurve("secp256k1", h)

\* the Round 1 responses that have arrived, the client's own among them
Round1Answers == {k \in 1..Len(round1Resps) : round1Resps[k].status = "ok"}

Scalars == 0..(CurveOrder(client.keyType) - 1)

\* C16: the ECIES layer uses secp256k1 for both keyType values. For a client built
\* with keyType secp256k1 or ed25519, tempPubKey is tempPrivKey times the secp256k1
\* generator (never the TSS curve generator), and every share ciphertext (user_enc,
\* server_encs, userFactorEnc, server factor encryptions) is encrypted to a
\* secp256k1 key, while commitments and share arithmetic use the curve selected by
\* keyType.
C16_EciesOnSecp256k1 ==
  /\ client.keyType \in KeyTypes
  /\ client.tempPubKey = PointMul(ecCurveSecp256k1_g, client.tempPrivKey)
  /\ client.tempPubKey.curve = "secp256k1"
  /\ client.tssPubKey.curve = client.keyType
  /\ pc = "round1" =>
       \A k \in Round1Answers : \A i \in 1..Len(round1Resps[k].data) :
         LET d == round1Resps[k].data[i]
         IN  /\ d.user_enc.to = hexPoint(client.tempPubKey)
             /\ Secp256k1Key(d.user_enc.to)
             /\ d.user_enc.msg \in Scalars
             /\ \A j \in 1..Len(d.server_encs) :
                  /\ d.server_encs[j].to = client.serverPubKeys[j]
                  /\ Secp256k1Key(d.server_encs[j].to)
                  /\ d.server_encs[j].msg \in Scalars
             /\ \A c \in 1..Len(d.master_poly_commits) : OnCurve(client.keyType, d.master_poly_commits[c])
             /\ \A c \in 1..Len(d.server_poly_commits) : OnCurve(client.keyType, d.server_poly_commits[c])
  /\ pc = "round2" =>
       /\ \A i \in 1..Len(sums) :
            /\ \A c \in 1..Len(sums[i].mc) : sums[i].mc[c].curve = client.keyType
            /\ \A c \in 1..Len(sums[i].sc) : sums[i].sc[c].curve = client.keyType
            /\ PointMul(Point(client.keyType, 1), userShares[i])
                 = PointAdd(sums[i].mc[1], PointMul(sums[i].mc[2], UserShareIndex))
       /\ \A i \in 1..Len(userShares) : userShares[i] \in Scalars
       /\ \A i \in 1..Len(userFactorEncs) :
            /\ Secp256k1Key(userFactorEncs[i].to)
            /\ userFactorEncs[i].msg \in Scalars
       /\ \A ind \in 1..Len(round2Resps) :
            round2Resps[ind].status = "ok" =>
              \A i \in 1..Len(round2Resps[ind].data) :
                \A f \in 1..Len(round2Resps[ind].data[i].encs) :
                  /\ Secp256k1Key(round2Resps[ind].data[i].encs[f].to)
                  /\ round2Resps[ind].data[i].encs[f].msg \in Scalars

\* a call of an ed25519 client succeeded with every server's factor encryption
C16_Witness ==
  /\ client.keyType = "ed25519"
  /\ pc = "done"
  /\ result.status = "ok"
  /\ \A ind \in 1..Len(round2Resps) : round2Resps[ind].status = "ok"

C17_ConstructorRejected ==
  /\ call.fn = "RSSClient"
  /\ ret.done
  /\ call.opts.keyType = "p256"
  /\ ret.val.error = KeyTypeError

\* ------------------------------------------------------------------------
\* C21: the requests of a call
\* ------------------------------------------------------------------------
\* the promise positions of the Round 1 requests posted to server j for a server set
Round1RequestsTo(j, set) ==
  {k \in 1..Len(round1Reqs) : round1Reqs[k].server_index = j /\ round1Reqs[k].server_set = set}

\* the server sets a call asks Round 1 of, with the label each carries
Round1Sets(o) ==
  IF o.op = "refresh" THEN {<<"old", o.oldLabel>>, <<"new", o.newLabel>>} ELSE {<<"new", o.newLabel>>}

\* the Round 1 requests of a call are out
Round1Issued == pc = "round1" /\ opts.op \in {"refresh", "import"}

\* C21: refresh posts, to each selected server and to no other, exactly one Round 1
\* request of the old set with oldLabel and exactly one of the new set with newLabel
\* (2T requests); import posts exactly one of the new set to each selected server
\* (T requests); once the checks passed, exactly one Round 2 request goes to each of
\* the N servers, selected or not, with server_index the position of that server
C21_RequestFanOut ==
  /\ Round1Issued =>
       /\ Len(round1Reqs) = Cardinality(Round1Sets(opts)) * serverThreshold
       /\ \A j \in Servers : \A sl \in Round1Sets(opts) :
            IF j \in SelectedSet(opts.selectedServers)
            THEN /\ Cardinality(Round1RequestsTo(j, sl[1])) = 1
                 /\ \A k \in Round1RequestsTo(j, sl[1]) : round1Reqs[k].label = sl[2]
            ELSE Round1RequestsTo(j, sl[1]) = {}
       /\ \A k \in 1..Len(round1Reqs) :
            /\ <<round1Reqs[k].server_set, round1Reqs[k].label>> \in Round1Sets(opts)
            /\ round1Reqs[k].round_name = "rss_round_1"
       /\ round2Reqs = <<>>
  /\ pc = "round2" =>
       /\ Len(round2Reqs) = NumServers
       /\ \A ind \in Servers :
            /\ round2Reqs[ind].server_index = ind
            /\ round2Reqs[ind].round_name = "rss_round_2"

\* a refresh that selected servers 3 and 1 posted its four Round 1 requests and then
\* a Round 2 request to every server, the unselected server 2 among them
C21_Witness ==
  /\ pc = "round2"
  /\ opts.op = "refresh"
  /\ opts.selectedServers = <<3, 1>>
  /\ Len(round1Reqs) = 2 * serverThreshold
  /\ Cardinality(Round1RequestsTo(3, "old")) = 1
  /\ \E j \in Servers : j \notin SelectedSet(opts.selectedServers) /\ round2Reqs[j].server_index = j

\* ------------------------------------------------------------------------
\* C22: the client's contribution in refresh
\* ------------------------------------------------------------------------
\* a call of the client's contribution, in either implementation, has returned
ClientRound1Returned ==
  /\ call.fn \in {"refreshClientRound1", "refreshClientRound1Internal"}
  /\ ret.done

\* the constant term of the master polynomial for target t as the claim has it
RefreshConstantTerm(inputIndex, t, inputShare) ==
  bigIntUmod(getLagrangeCoeff(<<1, inputIndex>>, inputIndex, 0, ecCurve_n)
               * getLagrangeCoeff(<<0, 1>>, 0, t, ecCurve_n) * inputShare, ecCurve_n)

\* C22: for each target t the client builds a master polynomial of degree 1 with
\* constant term Lagrange([1,inputIndex],inputIndex,0) * Lagrange([0,1],0,t) * inputShare
\* mod n, that is (t - 1) * inputShare / (inputIndex - 1); a server polynomial of degree
\* T-1 with constant term m_t(1); commitments G*a to every coefficient of both; a
\* user_enc of m_t(99) to the temp public key; exactly N server_encs, entry j of
\* s_t(j+1) to serverPubKeys[j]; the BN and the bigint implementation give the same
\* constant terms
C22_ClientContribution ==
  ClientRound1Returned =>
    /\ Len(ret.val) = Len(call.targetIndexes)
    /\ \A i \in 1..Len(call.targetIndexes) :
         LET m == ret.masterPolys[i]
             s == ret.serverPolys[i]
             d == ret.val[i]
         IN  /\ Len(m) = 2
             /\ m[1] = RefreshConstantTerm(call.inputIndex, call.targetIndexes[i], call.inputShare)
             /\ bigIntUmod((call.inputIndex - 1) * m[1], ecCurve_n)
                  = bigIntUmod((call.targetIndexes[i] - 1) * call.inputShare, ecCurve_n)
             /\ Len(s) = serverThreshold
             /\ s[1] = bigIntUmod(m[1] + m[2], ecCurve_n)
             /\ call.fn = "refreshClientRound1" =>
                  /\ d.master_poly_commits = [k \in 1..2 |-> hexPoint(PointMul(G, m[k]))]
                  /\ d.server_poly_commits = [k \in 1..serverThreshold |-> hexPoint(PointMul(G, s[k]))]
                  /\ d.user_enc.to = hexPoint(client.tempPubKey)
                  /\ decrypt(client.tempPrivKey, d.user_enc) = bigIntUmod(m[1] + UserShareIndex * m[2], ecCurve_n)
                  /\ Len(d.server_encs) = NumServers
                  /\ \A j \in Servers :
                       /\ d.server_encs[j].to = client.serverPubKeys[j]
                       /\ decrypt(store[j].privKey, d.server_encs[j])
                            = bigIntUmod(DotLoop(s, [k \in 1..Len(s) |-> Pow(j, k - 1)], 1, 0), ecCurve_n)

\* both implementations returned for the same inputs with a constant term that is
\* neither 0 nor the input share
C22_Witness ==
  /\ ClientRound1Returned
  /\ call.fn = "refreshClientRound1Internal"
  /\ call.inputIndex = 3
  /\ call.targetIndexes = <<3, 2>>
  /\ ret.masterPolys[2][1] \notin {0, call.inputShare}
  /\ ret.masterPolys[2][1]
       = DealerPolys(refreshLagrangeCoeffs(call.inputIndex, call.targetIndexes)[2], call.inputShare,
                     serverThreshold, env.seed, 0, 2).m[1]

\* ------------------------------------------------------------------------
\* C23: the client's contribution in import
\* ------------------------------------------------------------------------
\* an import has its Round 1 requests out, or its Round 2 requests
ImportRunning == opts.op = "import" /\ pc \in {"round1", "round2"}

\* the commitment to the constant term of the master polynomial in the last Round 1
\* response, for target position i
LastConstantCommit(i) == ecPoint(ecCurve, round1Resps[Len(round1Resps)].data[i].master_poly_commits[1])

\* C23: in import, for each target t the client's master polynomial has constant term
\* Lagrange([0,1],0,t) * importKey mod n, that is (1 - t) * importKey, with no factor for
\* an old share index; the client is the (T+1)-th co-dealer next to the T responses of
\* the new set; every server_encs column sent in Round 2 has length T+1
C23_ImportContribution ==
  ImportRunning =>
    /\ Len(round1Reqs) = serverThreshold
    /\ \A k \in 1..Len(round1Reqs) : round1Reqs[k].server_set = "new"
    /\ Len(round1Resps) = serverThreshold + 1
    /\ \A i \in 1..Len(opts.targetIndexes) :
         /\ LastConstantCommit(i)
              = PointMul(G, bigIntUmod(getLagrangeCoeff(<<0, 1>>, 0, opts.targetIndexes[i], ecCurve_n)
                                         * opts.inputShare, ecCurve_n))
         /\ LastConstantCommit(i) = PointMul(G, (1 - opts.targetIndexes[i]) * opts.inputShare)
         /\ Len(round1Resps[Len(round1Resps)].data[i].master_poly_commits) = 2
    /\ pc = "round2" =>
         \A ind \in 1..Len(round2Reqs) : \A i \in 1..Len(opts.targetIndexes) :
           /\ Len(round2Reqs[ind].data[i].server_encs) = serverThreshold + 1
           /\ round2Reqs[ind].data[i].server_encs[serverThreshold + 1]
                = round1Resps[serverThreshold + 1].data[i].server_encs[ind]

\* an import for targets 3 and 2 sent its Round 2 requests: the columns hold T+1
\* ciphertexts and the constant term for target 3 is not the imported key
C23_Witness ==
  /\ ImportRunning
  /\ pc = "round2"
  /\ opts.targetIndexes = <<3, 2>>
  /\ Len(round2Reqs[1].data[1].server_encs) = serverThreshold + 1
  /\ LastConstantCommit(1) # PointMul(G, opts.inputShare)
  /\ LastConstantCommit(2) = PointMul(G, ecCurve_n - opts.inputShare)

\* ------------------------------------------------------------------------
\* C24: the transpose
\* ------------------------------------------------------------------------
\* the number of Round 1 responses of a call, the client's included
ResponseCount == IF opts.op = "refresh" THEN 2 * serverThreshold + 1 ELSE serverThreshold + 1

\* C24: for every target t and every server j in 1..N, the server_encs list sent to
\* server j in Round 2 is the list of the entries j-1 of the server_encs of the Round 1
\* responses for that target, in the order of the response list, K = 2T+1 of them in
\* refresh (T+1 in import); no ciphertext addressed to another server is sent to server j
C24_Transpose ==
  pc = "round2" =>
    /\ Len(round1Resps) = ResponseCount
    /\ \A j \in Servers : \A i \in 1..Len(opts.targetIndexes) :
         /\ round2Reqs[j].data[i].server_encs
              = [k \in 1..ResponseCount |-> round1Resps[k].data[i].server_encs[j]]
         /\ \A k \in 1..Len(round2Reqs[j].data[i].server_encs) :
              /\ round2Reqs[j].data[i].server_encs[k].to = client.serverPubKeys[j]
              /\ \A other \in Servers \ {j} :
                   round2Reqs[j].data[i].server_encs[k].to # client.serverPubKeys[other]

\* a refresh for two targets sent its Round 2 requests: the column of server 3 for
\* the second target holds 2T+1 ciphertexts, the first of them from the first response
C24_Witness ==
  /\ pc = "round2"
  /\ opts.op = "refresh"
  /\ Len(opts.targetIndexes) = 2
  /\ Len(round2Reqs[3].data[2].server_encs) = 2 * serverThreshold + 1
  /\ round2Reqs[3].data[2].server_encs[1] = round1Resps[1].data[2].server_encs[3]
  /\ round1Resps[1].data[2].server_encs[3] # round1Resps[1].data[2].server_encs[1]

\* ------------------------------------------------------------------------
\* C25: the shape of the result
\* ------------------------------------------------------------------------
\* the call has just returned its list of RefreshResponse: recover, the only step
\* that follows, leaves the call and its result as they are
Returned == pc = "done" /\ result.status = "ok" /\ recovered = NoRecover

\* C25: a successful refresh / import returns exactly one RefreshResponse per element
\* of targetIndexes, in the same order: entry i has targetIndex = targetIndexes[i],
\* factorPub = factorPubs[i], userFactorEnc = the encryption of userShare_i under
\* factorPubs[i], and serverFactorEncs of length N whose entry j-1 is the first
\* ciphertext server j returned for target i (nothing where server j returned nothing);
\* the Round 2 request for target i carried factor_pubkeys = [factorPubs[i]]
C25_OutputShape ==
  Returned =>
    /\ Len(result.factorEncs) = Len(opts.targetIndexes)
    /\ \A i \in 1..Len(opts.targetIndexes) :
         LET r == result.factorEncs[i]
         IN  /\ r.targetIndex = opts.targetIndexes[i]
             /\ r.factorPub = opts.factorPubs[i]
             /\ r.userFactorEnc = encrypt(opts.factorPubs[i], userShares[i])
             /\ decrypt(factorKey(i), r.userFactorEnc) = userShares[i]
             /\ Len(r.serverFactorEncs) = NumServers
             /\ \A j \in Servers :
                  /\ round2Reqs[j].data[i].factor_pubkeys = <<opts.factorPubs[i]>>
                  /\ IF round2Resps[j].status = "ok"
                     THEN /\ r.serverFactorEncs[j] = round2Resps[j].data[i].encs[1]
                          /\ r.serverFactorEncs[j].to = opts.factorPubs[i]
                     ELSE r.serverFactorEncs[j] = NoEnc

\* a call for targets 3 and 2 returned with one server missing: the entries differ
\* and the slot of the missing server is empty
C25_Witness ==
  /\ Returned
  /\ opts.targetIndexes = <<3, 2>>
  /\ result.factorEncs[1].targetIndex = 3
  /\ result.factorEncs[1].userFactorEnc # result.factorEncs[2].userFactorEnc
  /\ \E j \in Servers : result.factorEncs[2].serverFactorEncs[j] = NoEnc
  /\ \E j \in Servers :
       /\ round2Resps[j].status = "ok"
       /\ result.factorEncs[1].serverFactorEncs[j] # result.factorEncs[2].serverFactorEncs[j]

\* ------------------------------------------------------------------------
\* C26: the shape of the commitments
\* ------------------------------------------------------------------------
\* a Round 1 response came with a commitment list of a wrong length and the client
\* has gone on from the await of the Round 1 promises
ShapeAlteredDecided == tampered.kind = "shape" /\ pc # "round1"

\* C26: if a Round 1 response has, for some target index, master_poly_commits of a
\* length other than 2 or server_poly_commits of a length other than T, refresh /
\* import fails with the error of the commitment shape, before any commitment of that
\* target is summed, before any user_enc is decrypted (a user_enc that does not
\* decrypt is not what the call fails with) and before any Round 2 request is issued
C26_CommitShape ==
  /\ tampered.kind = "shape" =>
       /\ sums = <<>>
       /\ userShares = <<>>
       /\ userFactorEncs = <<>>
       /\ round2Reqs = <<>>
       /\ round2Resps = <<>>
  /\ ShapeAlteredDecided =>
       /\ pc = "done"
       /\ result.status = (IF tampered.field = "master" THEN MasterShapeError ELSE ServerShapeError)
       /\ result.factorEncs = <<>>

\* the second target of a refresh came with a server commitment list that is too
\* short, in a response whose user_enc does not decrypt, and the call failed on the
\* length
C26_Witness ==
  /\ ShapeAlteredDecided
  /\ opts.op = "refresh"
  /\ tampered.i = 2
  /\ tampered.field = "server"
  /\ tampered.idx = serverThreshold - 1
  /\ tampered.original # round1Resps[tampered.k].data[2].user_enc
  /\ result.status = ServerShapeError

\* ------------------------------------------------------------------------
\* C27: the checks of the server in Round 2
\* ------------------------------------------------------------------------
\* the servers whose Round 2 handler has returned or thrown, while the client awaits
\* the Round 2 promises
Round2Handled ==
  IF pc = "round2" THEN {ind \in 1..Len(round2Resps) : round2Resps[ind] # Round2Pending} ELSE {}

\* the sum mod n of the shares of the column d.server_encs, decrypted by server ind
ColumnSum(d, ind) ==
  SumMod([k \in 1..Len(d.server_encs) |-> decrypt(store[ind].privKey, d.server_encs[k])], 1, 0)

\* every ciphertext of the column opens under the key of server ind
ColumnDecrypts(d, ind) ==
  \A k \in 1..Len(d.server_encs) : decrypt(store[ind].privKey, d.server_encs[k]) # DecryptError

\* master_commits[0] + master_commits[1] == server_commits[0]
MasterServerConsistent(d) ==
  PointAdd(ecPoint(ecCurve, d.master_commits[1]), ecPoint(ecCurve, d.master_commits[2]))
    = ecPoint(ecCurve, d.server_commits[1])

\* G * (the summed share) == the sum over k of server_index^k * server_commits[k]
ShareOnServerPoly(d, ind) ==
  PointMul(G, ColumnSum(d, ind))
    = Point(ecCurve, DotLoop([k \in 1..Len(d.server_commits) |-> ecPoint(ecCurve, d.server_commits[k]).k],
                             [k \in 1..Len(d.server_commits) |-> Pow(ind, k - 1)], 1, 0))

\* C27: RSSRound2Handler returns ciphertexts only if, for every target of the
\* request, master_commits[0] + master_commits[1] == server_commits[0] and
\* G * (the sum mod n of the decrypted shares of the column) == the sum over k of
\* server_index^k * server_commits[k]; if either check fails for a target the whole
\* request fails and no ciphertext is returned; on success it returns, for each
\* target, one encryption of the summed share for every factor_pubkey
C27_ServerRound2Check ==
  \A ind \in Round2Handled :
    \A b \in {round2Reqs[ind]} :
      /\ round2Resps[ind].status \in {"ok", "null"}
      /\ round2Resps[ind].status = "ok" =>
           /\ b.round_name = "rss_round_2"
           /\ Len(round2Resps[ind].data) = Len(b.data)
           /\ \A i \in 1..Len(b.data) :
                /\ MasterServerConsistent(b.data[i])
                /\ ColumnDecrypts(b.data[i], ind)
                /\ ShareOnServerPoly(b.data[i], ind)
                /\ Len(round2Resps[ind].data[i].encs) = Len(b.data[i].factor_pubkeys)
                /\ \A f \in 1..Len(b.data[i].factor_pubkeys) :
                     round2Resps[ind].data[i].encs[f]
                       = encrypt(b.data[i].factor_pubkeys[f], ColumnSum(b.data[i], ind))
      /\ (\E i \in 1..Len(b.data) :
            ~MasterServerConsistent(b.data[i])
              \/ (ColumnDecrypts(b.data[i], ind) /\ ~ShareOnServerPoly(b.data[i], ind))) =>
           /\ round2Resps[ind].status = "null"
           /\ round2Resps[ind].data = <<>>
      /\ (b.round_name = "rss_round_2"
            /\ \A i \in 1..Len(b.data) :
                 /\ MasterServerConsistent(b.data[i])
                 /\ ColumnDecrypts(b.data[i], ind)
                 /\ ShareOnServerPoly(b.data[i], ind)) =>
           round2Resps[ind].status = "ok"

\* a server threw on a request for two targets of which only the second was altered
\* and failed a check
C27_Witness ==
  /\ tampered.kind = "round2"
  /\ tampered.i = 2
  /\ tampered.k \in Round2Handled
  /\ round2Resps[tampered.k].status = "null"
  /\ round2Reqs[tampered.k].round_name = "rss_round_2"
  /\ MasterServerConsistent(round2Reqs[tampered.k].data[1])
  /\ ShareOnServerPoly(round2Reqs[tampered.k].data[1], tampered.k)
  /\ MasterServerConsistent(round2Reqs[tampered.k].data[2])
  /\ ColumnDecrypts(round2Reqs[tampered.k].data[2], tampered.k)
  /\ ~ShareOnServerPoly(round2Reqs[tampered.k].data[2], tampered.k)

\* ------------------------------------------------------------------------
\* C28: the validation of the exported RSSRound1Handler
\* ------------------------------------------------------------------------
\* the exported RSSRound1Handler has returned or thrown
Round1HandlerDone == call.fn = "RSSRound1Handler" /\ ret.done

\* the selected list of the committee the request names
SelectedOf(b) == (IF b.server_set = "old" THEN b.old_servers_info ELSE b.new_servers_info).selected

\* the conditions of the claim on the body, the one on old_user_share_index apart
Round1Conditions(b) ==
  /\ b.round_name = "rss_round_1"
  /\ b.server_set \in {"old", "new"}
  /\ \A k \in 1..Len(b.target_index) : b.target_index[k] \in {2, 3}
  /\ b.server_index \in 1..NumServers
  /\ b.server_index \in SelectedSet(SelectedOf(b))

\* C28: RSSRound1Handler returns a response only if round_name is "rss_round_1",
\* server_set is "old" or "new", every element of target_index is 2 or 3,
\* old_user_share_index is 2 or 3, server_index is in 1..N and server_index is an
\* element of selected; otherwise it throws and returns no commitments or ciphertexts
C28_Round1Validation ==
  Round1HandlerDone =>
    IF Round1Conditions(call.body) /\ call.body.old_user_share_index \in {2, 3}
    THEN ret.val.status = "ok" \/ (ret.val.status = "error" /\ ret.val.data = <<>>)
    ELSE ret.val.status = "error" /\ ret.val.data = <<>>

\* C28 as the code has it: RSSRound1Handler returns a response only if round_name is
\* "rss_round_1", server_set is "old" or "new", every element of target_index is 2 or
\* 3, old_user_share_index is 2 or 3 when server_set is "old" (a request for the new
\* set is answered whatever its old_user_share_index), server_index is in 1..N and
\* is an element of selected; otherwise it throws and returns no commitments or
\* ciphertexts; and it does return a response when these hold and every selected index
\* is in 1..N
C28_Round1ValidationAmended ==
  Round1HandlerDone =>
    /\ ret.val.status \in {"ok", "error"}
    /\ ret.val.status = "ok" =>
         /\ Round1Conditions(call.body)
         /\ call.body.server_set = "old" => call.body.old_user_share_index \in {2, 3}
         /\ Len(ret.val.data) = Len(call.body.target_index)
    /\ ret.val.status = "error" => ret.val.data = <<>>
    /\ (/\ Round1Conditions(call.body)
        /\ call.body.server_set = "old" => call.body.old_user_share_index \in {2, 3}
        /\ SelectedSet(SelectedOf(call.body)) \subseteq Servers) =>
         ret.val.status = "ok"

\* a request for the new set without an old_user_share_index, as import sends it, was
\* answered with commitments and ciphertexts
C28_Witness ==
  /\ Round1HandlerDone
  /\ call.body.server_set = "new"
  /\ call.body.old_user_share_index = NULL
  /\ ret.val.status = "ok"
  /\ Len(ret.val.data) = 2
  /\ Len(ret.val.data[1].server_encs) = NumServers

\* ------------------------------------------------------------------------
\* C29: selected indexes out of range, in both Round 1 handlers
\* ------------------------------------------------------------------------
\* one of the two Round 1 handlers has returned or thrown
AnyRound1HandlerDone == call.fn \in {"RSSRound1Handler", "MockServer.RSSRound1Handler"} /\ ret.done

\* the selected list of the request has an index <= 0 or greater than the number of pubkeys
SelectedOutOfRange(b) == \E k \in 1..Len(SelectedOf(b)) : SelectedOf(b)[k] <= 0 \/ SelectedOf(b)[k] > NumServers

\* C29: every Round 1 handler of the mock server, the exported RSSRound1Handler
\* function and the MockServer.RSSRound1Handler method, rejects a request whose
\* selected list contains an index <= 0 or greater than N, whatever the value of
\* server_index
C29_SelectedInRange ==
  (AnyRound1HandlerDone /\ SelectedOutOfRange(call.body)) =>
    (ret.val.status = "error" /\ ret.val.data = <<>>)

\* the exported function does reject these requests
C29_ExportedRejects ==
  (Round1HandlerDone /\ SelectedOutOfRange(call.body)) =>
    (ret.val.status = "error" /\ ret.val.data = <<>>)

\* the method answered a request of which every field but selected is sound, the server
\* index is in range and selected, and selected names the index N + 1
C29_MethodAccepted ==
  /\ call.fn = "MockServer.RSSRound1Handler" /\ ret.done
  /\ call.body.server_index = 1
  /\ SelectedOf(call.body)[serverThreshold] = NumServers + 1
  /\ ret.val.status = "ok"
  /\ Len(ret.val.data) = Len(call.body.target_index)

\* ------------------------------------------------------------------------
\* C30: Round 1 has no failure tolerance
\* ------------------------------------------------------------------------
\* the promise positions of the Round 1 requests to the servers that failed, and that
\* were answered (the last promise is the client's own)
Round1FailedAt == {k \in 1..Len(round1Reqs) : round1Resps[k].status = "error"}
Round1AnsweredAt == {k \in 1..Len(round1Reqs) : round1Resps[k].status = "ok"}

\* C30: if any single Round 1 request to a selected server fails (rejection or
\* transport error), refresh/import fails as a whole and issues no Round 2 request,
\* even when T or more other servers answered Round 1 correctly
C30_NoFailureTolerance ==
  Round1FailedAt # {} =>
    /\ round2Reqs = <<>>
    /\ pc \in {"round1", "done"}
    /\ pc = "done" => (result.status = Round1Failed /\ result.factorEncs = <<>>)

\* a refresh has failed on one rejected Round 1 request while the 2T - 1 other
\* requests to the servers were answered
C30_Witness ==
  /\ pc = "done"
  /\ opts.op = "refresh"
  /\ Cardinality(Round1FailedAt) = 1
  /\ Cardinality(Round1AnsweredAt) = 2 * serverThreshold - 1
  /\ result.status = Round1Failed
  /\ round2Reqs = <<>>

\* an import has failed on one rejected Round 1 request while the others are unsettled
C30_FailsEarly ==
  /\ pc = "done"
  /\ opts.op = "import"
  /\ Cardinality(Round1FailedAt) = 1
  /\ Round1AnsweredAt = {}
  /\ result.status = Round1Failed

\* ------------------------------------------------------------------------
\* C31: the co-dealers of the columns and the co-dealers of the sums
\* ------------------------------------------------------------------------
\* the co-dealers (positions of the Round 1 response list) whose ciphertext for server
\* ind and target position i is in the column sent to server ind
ColumnDealers(ind, i) ==
  {k \in 1..Len(round1Resps) :
     k <= Len(Column(ind, i)) /\ Column(ind, i)[k] = round1Resps[k].data[i].server_encs[ind]}

\* the commitments of the Round 2 request for target position i are the sums over the
\* co-dealers at the positions 1..m of the Round 1 response list
SummedUpTo(ind, i, m) ==
  \A sm \in {SumCommits(SubSeq(round1Resps, 1, m), i)} :
    /\ round2Reqs[ind].data[i].master_commits = [k \in 1..Len(sm.mc) |-> hexPoint(sm.mc[k])]
    /\ round2Reqs[ind].data[i].server_commits = [k \in 1..Len(sm.sc) |-> hexPoint(sm.sc[k])]

\* C31: for any selectedServers list the client accepts, in every Round 2 request the
\* set of co-dealers whose ciphertexts appear in the server_encs column equals the set
\* of co-dealers whose commitments were summed into that request's master_commits and
\* server_commits
C31_ColumnMatchesSums ==
  round2Reqs # <<>> =>
    \A ind \in 1..Len(round2Reqs), i \in 1..Len(opts.targetIndexes) :
      \E m \in 1..Len(round1Resps) :
        /\ SummedUpTo(ind, i, m)
        /\ Len(Column(ind, i)) = m
        /\ ColumnDealers(ind, i) = 1..m

\* the statement holds for the lists of length T
C31_LengthT ==
  (round2Reqs # <<>> /\ Len(opts.selectedServers) = serverThreshold) =>
    \A ind \in 1..Len(round2Reqs), i \in 1..Len(opts.targetIndexes) :
      /\ SummedUpTo(ind, i, Len(round1Resps))
      /\ Len(Column(ind, i)) = Len(round1Resps)
      /\ ColumnDealers(ind, i) = 1..Len(round1Resps)

\* a refresh with T + 1 selected servers has sent its Round 2 requests: the
\* commitments are the sums over all 2(T + 1) + 1 co-dealers, the columns hold the
\* ciphertexts of the first 2T + 1 of them, and the client's own is not among these
C31_DealerLeftOut ==
  /\ pc = "round2"
  /\ opts.op = "refresh"
  /\ Len(opts.selectedServers) = serverThreshold + 1
  /\ Len(round1Resps) = 2 * serverThreshold + 3
  /\ SummedUpTo(1, 1, 2 * serverThreshold + 3)
  /\ Len(Column(1, 1)) = 2 * serverThreshold + 1
  /\ ColumnDealers(1, 1) = 1..(2 * serverThreshold + 1)

\* a call with T - 1 selected servers ends in an error without a Round 2 request
C31_ShortList ==
  (pc = "done" /\ LengthsMatch /\ Len(opts.selectedServers) < serverThreshold) =>
    (result.status # "ok" /\ round2Reqs = <<>>)

\* every server rejects the Round 2 request of a call with T + 1 selected servers, and
\* the call ends with the availability error
C31_LongListFails ==
  /\ pc = "done"
  /\ Len(opts.selectedServers) = serverThreshold + 1
  /\ round2Reqs # <<>>
  /\ \A ind \in 1..Len(round2Resps) : round2Resps[ind].status # "ok"
  /\ result.status = NotEnoughServers

\* ------------------------------------------------------------------------
\* C32: the order in which the responses arrive
\* ------------------------------------------------------------------------
\* the answer of the server to the Round 1 request at promise position k
AnswerTo(k) ==
  RSSRound1Handler(round1Reqs[k], shareDB[round1Reqs[k].server_index][round1Reqs[k].label], env.seed)

\* the Round 1 response list with every answer at the position of its request and the
\* client's own response after them
ByRequestPosition == [k \in 1..Len(round1Reqs) |-> AnswerTo(k)] \o <<ClientResponse>>

\* C32: arrival order does not matter. In whatever order the Round 1 and Round 2
\* responses arrived, each response is at the position of its request, the aggregated
\* commitments and the Round 2 requests are those computed from the responses in request
\* order, and entry ind of every serverFactorEncs is the answer of server ind (null if
\* its request failed)
C32_ArrivalOrder ==
  /\ pc = "round1" =>
       \A k \in 1..Len(round1Reqs) : round1Resps[k].status = "ok" => round1Resps[k] = AnswerTo(k)
  /\ round2Reqs # <<>> =>
       \A out \in {ClientAfterRound1(opts, ByRequestPosition, tssPubKeyOf(env))} :
         /\ round1Resps = ByRequestPosition
         /\ out.error = "ok"
         /\ sums = out.sums
         /\ round2Reqs = [ind \in 1..Len(serverEndpoints) |-> Round2Request(ind, opts, out)]
         /\ \A ind \in 1..Len(round2Resps) :
              round2Resps[ind].status = "ok" =>
                round2Resps[ind] = RSSRound2Handler(round2Reqs[ind], store[ind].privKey)
         /\ (pc = "done" /\ result.status = "ok") =>
              \A i \in 1..Len(opts.targetIndexes), ind \in Servers :
                result.factorEncs[i].serverFactorEncs[ind] =
                  IF round2Resps[ind].status = "ok"
                  THEN RSSRound2Handler(round2Reqs[ind], store[ind].privKey).data[i].encs[1]
                  ELSE NoEnc

\* a refresh returned after the request to server 1 failed in Round 2: the first entry
\* of serverFactorEncs is null and the others are the answers of servers 2..N
C32_Witness ==
  /\ Returned
  /\ opts.op = "refresh"
  /\ round2Resps[1].status = "null"
  /\ result.factorEncs[1].serverFactorEncs[1] = NoEnc
  /\ \A ind \in 2..NumServers :
       /\ round2Resps[ind].status = "ok"
       /\ result.factorEncs[1].serverFactorEncs[ind] # NoEnc
       /\ decrypt(factorKey(1), result.factorEncs[1].serverFactorEncs[ind])
            = decrypt(factorKey(1), RSSRound2Handler(round2Reqs[ind], store[ind].privKey).data[1].encs[1])

\* ------------------------------------------------------------------------
\* C33: two calls interleaved on one client
\* ------------------------------------------------------------------------
\* a call with the options o running alone against the servers as the harness set them
\* up: its Round 1 requests, the responses to them, what the client makes of these, its
\* Round 2 requests, the responses to them and its result
AloneRound1Reqs(o) ==
  IF o.op = "refresh"
  THEN [k \in 1..Len(o.selectedServers) |-> Round1Request("old", o.selectedServers[k], o, o.oldLabel)]
       \o [k \in 1..Len(o.selectedServers) |-> Round1Request("new", o.selectedServers[k], o, o.newLabel)]
  ELSE [k \in 1..Len(o.selectedServers) |-> Round1Request("new", o.selectedServers[k], o, o.newLabel)]

AloneRound1Resp(o, k) ==
  IF k = Len(AloneRound1Reqs(o)) + 1
  THEN [status |-> "ok", target_index |-> o.targetIndexes,
        data |-> IF o.op = "refresh"
                 THEN refreshClientRound1(o.inputIndex, o.targetIndexes, o.inputShare, env.seed)
                 ELSE importClientRound1(o.targetIndexes, o.inputShare, env.seed)]
  ELSE LET b == AloneRound1Reqs(o)[k]
       IN  RSSRound1Handler(b, HarnessShareDB(env)[b.server_index][b.label], env.seed)

AloneRound2Req(o, out, ind) == Round2Request(ind, o, out)

AloneRound2Resp(o, out, ind) == RSSRound2Handler(Round2Request(ind, o, out), HarnessStore[ind].privKey)

\* the local variables c of a call are those of the call running alone, as far as it
\* has come: a response is compared once it is there, and what the client makes of the
\* Round 1 responses is computed from the list once it is known to be that of the call
\* running alone
AsAlone(c) ==
  c.pc # "idle" =>
    /\ c.round1Reqs = AloneRound1Reqs(c.opts)
    /\ Len(c.round1Resps) = Len(c.round1Reqs) + 1
    /\ \A k \in 1..Len(c.round1Resps) :
         \/ c.pc = "round1" /\ k <= Len(c.round1Reqs) /\ c.round1Resps[k] = Pending
         \/ c.round1Resps[k] = AloneRound1Resp(c.opts, k)
    /\ c.pc = "round1" => (c.round2Reqs = <<>> /\ c.round2Resps = <<>> /\ c.result = NoResult)
    /\ c.pc \in {"round2", "done"} =>
         \A out \in {ClientAfterRound1(c.opts, c.round1Resps, tssPubKeyOf(env))} :
           /\ out.error = "ok"
           /\ c.sums = out.sums
           /\ c.userShares = out.userShares
           /\ c.userFactorEncs = out.userFactorEncs
           /\ Len(c.round2Reqs) = Len(serverEndpoints)
           /\ Len(c.round2Resps) = Len(serverEndpoints)
           /\ \A ind \in 1..Len(serverEndpoints) :
                /\ c.round2Reqs[ind] = AloneRound2Req(c.opts, out, ind)
                /\ \/ c.pc = "round2" /\ c.round2Resps[ind] = Round2Pending
                   \/ c.round2Resps[ind] = AloneRound2Resp(c.opts, out, ind)
           /\ c.pc = "round2" => c.result = NoResult
           /\ c.pc = "done" =>
                c.result = [status |-> "ok", factorEncs |-> FactorEncs(c.opts, c.round2Resps, out.userFactorEncs)]

\* C33: two refresh/import calls that run interleaved on the same RSSClient do not
\* interfere: for every interleaving of their suspension points, the requests, the
\* responses and the result of each call are those of the call running alone, and the
\* fields of the client and the state of the servers stay as they were constructed
C33_NoInterference ==
  /\ AsAlone(Locals)
  /\ suspended # <<>> => AsAlone(suspended)
  /\ client = RSSClient(RSSClientOptions(env, env.keyType))
  /\ shareDB = HarnessShareDB(env)
  /\ store = HarnessStore

\* a refresh and an import of the same client have both returned, with different
\* results
C33_Witness ==
  /\ suspended # <<>>
  /\ pc = "done" /\ result.status = "ok"
  /\ suspended.pc = "done" /\ suspended.result.status = "ok"
  /\ opts.op = "import"
  /\ suspended.opts.op = "refresh"
  /\ result.factorEncs # suspended.result.factorEncs

\* both calls wait for Round 1 responses at the same time, each with some of its own
C33_BothInRound1 ==
  /\ suspended # <<>>
  /\ pc = "round1" /\ suspended.pc = "round1"
  /\ opts.op # suspended.opts.op
  /\ \E k \in 1..Len(round1Reqs) : round1Resps[k] # Pending
  /\ \E k \in 1..Len(suspended.round1Reqs) : suspended.round1Resps[k] # Pending
  /\ \E k \in 1..Len(round1Reqs) : round1Resps[k] = Pending
  /\ \E k \in 1..Len(suspended.round1Reqs) : suspended.round1Resps[k] = Pending

\* ------------------------------------------------------------------------
\* C34: the call waits for every Round 2 request
\* ------------------------------------------------------------------------
\* the servers whose Round 2 request has not settled
Round2Unsettled == {ind \in 1..Len(round2Resps) : round2Resps[ind] = Round2Pending}

\* C34: refresh/import completes, with a result or with the availability error, only
\* after all N Round 2 requests have settled: while one of them is unsettled the call
\* is pending and cannot complete, even when T or more other servers have returned
\* usable responses
C34_WaitsForAll ==
  /\ (pc = "done" /\ round2Reqs # <<>>) =>
       (Len(round2Resps) = NumServers /\ Round2Unsettled = {})
  /\ pc = "round2" => result = NoResult
  /\ (pc = "round2" /\ Round2Unsettled # {}) => ~ENABLED Finish

\* T servers have answered their Round 2 request, one request is unsettled and the
\* call is pending
C34_Witness ==
  /\ pc = "round2"
  /\ Cardinality(Round2Answers) >= serverThreshold
  /\ Cardinality(Round2Unsettled) = 1
  /\ result = NoResult
  /\ ~ENABLED Finish

\* no step takes the call out of Round 2 while a Round 2 request is unsettled: a
\* request that never settles keeps the call in Round 2 for ever
C34_NoWayOut == [][(pc = "round2" /\ Round2Unsettled # {}) => pc' = "round2"]_vars

\* ------------------------------------------------------------------------
\* C35: termination
\* ------------------------------------------------------------------------
\* the call waits: it has begun and has not completed
Waiting == pc \in {"round1", "round2"}

\* a request of the call is outstanding
Outstanding ==
  \/ pc = "round1" /\ \E k \in 1..Len(round1Reqs) : round1Resps[k] = Pending
  \/ pc = "round2" /\ Round2Unsettled # {}

\* the client can go on: the promise it awaits has settled
CanGoOn == (pc = "round1" /\ ENABLED ClientRound2) \/ (pc = "round2" /\ ENABLED Finish)

\* the call has completed with a list of RefreshResponse or with an error
Completed ==
  /\ pc = "done"
  /\ \/ result.status = "ok" /\ Len(result.factorEncs) = Len(opts.targetIndexes)
     \/ result.status \in {LengthError, Round1Failed, NotEnoughServers} \cup Round1CheckErrors

\* C35: termination. If every request issued to a server eventually settles, every
\* refresh/import call eventually completes with a list of RefreshResponse or with an
\* error; in no reachable state does the call wait with no request outstanding and
\* nothing left for the client to do
C35_Termination ==
  /\ [](Waiting => (Outstanding \/ CanGoOn))
  /\ Waiting ~> Completed

\* a call has completed with the availability error after every Round 2 request settled
\* and fewer than T servers answered
C35_Witness ==
  /\ pc = "done"
  /\ result.status = NotEnoughServers
  /\ Round2Unsettled = {}
  /\ Cardinality(Round2Answers) < serverThreshold
  /\ Len(round2Reqs) = NumServers

\* ------------------------------------------------------------------------
\* C36: getShare
\* ------------------------------------------------------------------------
ShareReturned == call.fn \in {"getShare", "getShareBigInt"} /\ ret.done

\* the sum of a_i * x^i over the integers, a_i = polynomial[i + 1]
RECURSIVE PolySum(_, _, _)
PolySum(polynomial, x, i) ==
  IF i > Len(polynomial) THEN 0
  ELSE polynomial[i] * Pow(x, i - 1) + PolySum(polynomial, x, i + 1)

\* C36: getShare(poly, x, n) returns the sum of a_i * x^i reduced mod n, a value in
\* [0, n), for every coefficient list (coefficients >= n and negative ones included)
\* and every index x; each term is reduced mod n before it is accumulated, so the sum
\* the loop holds is at most len * (n - 1); the BN implementation and the bigint
\* implementation return the same value for the same inputs
C36_GetShare ==
  ShareReturned =>
    /\ ret.val \in 0..(ecCurve_n - 1)
    /\ (PolySum(call.polynomial, call.index, 1) - ret.val) % ecCurve_n = 0
    /\ ret.acc \in 0..(Len(call.polynomial) * (ecCurve_n - 1))
    /\ ret.val = getShare(call.polynomial, call.index, ecCurve_n)
    /\ ret.val = getShareBigInt(call.polynomial, call.index, ecCurve_n)

\* getShare has returned for a polynomial with a negative coefficient and one that is
\* not reduced, at a negative index, where the sum over the integers is negative
C36_Witness ==
  /\ ShareReturned
  /\ call.fn = "getShareBigInt"
  /\ call.polynomial = <<-1, ecCurve_n + 2, 5>>
  /\ call.index = -2
  /\ PolySum(call.polynomial, call.index, 1) = 15 - 2 * ecCurve_n
  /\ ret.val = IF ecCurve_n = 13 THEN 2 ELSE 15

\* ------------------------------------------------------------------------
\* C37: dotProduct, and recover on a selectedServers list that does not match
\* ------------------------------------------------------------------------
DotReturned == call.fn \in {"dotProduct", "dotProductBigInt"} /\ ret.done

\* sum of arr1[j] * arr2[j] for j = i .. Len(arr1), over the integers
RECURSIVE DotSum(_, _, _)
DotSum(arr1, arr2, i) ==
  IF i > Len(arr1) THEN 0 ELSE arr1[i] * arr2[i] + DotSum(arr1, arr2, i + 1)

\* the serverEncs slots that selectedServers selects by index
SelectedSlots(c) ==
  {j \in 1..Len(c.serverEncs) : \E k \in 1..Len(c.selectedServers) : c.selectedServers[k] = j}

RecoverUnmatched ==
  /\ call.fn = "recover"
  /\ ret.done
  /\ Cardinality(SelectedSlots(call)) # Len(call.selectedServers)

\* every ciphertext of the call decrypts and the key type is supported
RecoverReachesDotProduct ==
  /\ call.keyType \in KeyTypes
  /\ call.userEnc.mac
  /\ \A j \in 1..Len(call.serverEncs) : call.serverEncs[j].mac

C37_Reduced ==
  /\ DotReturned
  /\ Len(call.arr1) = KitMaxLen
  /\ Len(call.arr2) = KitMaxLen
  /\ call.modulus # NULL
  /\ ret.val # DotSum(call.arr1, call.arr2, 1)

\* dotProduct was called on arrays of different lengths
C37_LengthsDiffer ==
  /\ DotReturned
  /\ Len(call.arr1) # Len(call.arr2)
  /\ ret.val = LengthMismatch

\* ------------------------------------------------------------------------
\* C38: modularInverse
\* ------------------------------------------------------------------------
InverseReturned == call.fn = "modularInverse" /\ ret.done

RECURSIVE Gcd(_, _)
Gcd(a, b) == IF b = 0 THEN a ELSE Gcd(b, a % b)

\* C38: for 0 <= a < m and m > 1, modularInverse(a, m) terminates; when
\* gcd(a, m) = 1 it returns x in [0, m) with a * x = 1 (mod m), and when
\* gcd(a, m) > 1, a = 0 included, it throws "Modular inverse does not exist".
C38_ModularInverse ==
  InverseReturned =>
    /\ ret.steps \in 1..(call.m + 1)
    /\ IF Gcd(call.a, call.m) = 1
       THEN /\ ret.val \in 0..(call.m - 1)
            /\ (call.a * ret.val) % call.m = 1
       ELSE ret.val = InverseError

\* the inverse of an a > 1 modulo a composite m was returned after several passes
C38_Witness ==
  /\ InverseReturned
  /\ call.a > 1
  /\ \E d \in 2..(call.m - 1) : call.m % d = 0
  /\ ret.val \in 2..(call.m - 1)
  /\ ret.steps > 2

\* modularInverse of 0 was refused
C38_ZeroRefused ==
  /\ InverseReturned
  /\ call.a = 0
  /\ ret.val = InverseError

====
